---- MODULE Spec2Model ----
(***************************************************************************)
(* A model of PeerConnectionManager (src/src/core/connection-manager.ts):  *)
(* room lifecycle, the peer registry, the offer/answer handshake, message  *)
(* sending with the retry executor, and the transport callbacks it wires.  *)
(* The transport (RTCPeerConnection / RTCDataChannel) is the environment:  *)
(* its promises resolve or reject and its events arrive as separate steps. *)
(***************************************************************************)
EXTENDS Naturals, Sequences, FiniteSets, TLC

\* ---------------------------------------------------------------- bounds
\* transport connections (RTCPeerConnection objects) ever constructed
MaxConns == 3
\* call slots per manager: public async calls that can be in flight at once
MaxCalls == 2
\* candidates the transport discovers for one connection
MaxCands == 1
\* messages one connection may have in flight
MaxWire == 3
\* characters of a string field of a handshake payload
MaxStr == 2

\* ------------------------------------------------------ program constants
\* retryConnection(fn, maxRetries = 3)
maxRetries == 3

\* --------------------------------------------------------------- domains
Mgrs == {"H", "G"}
Rooms == {"r1", "r2"}
PeerIds == {"host", "p1", "p2"}
Msgs == {"m1", "m2"}
Null == "null"
\* the keys of this.iceCandidates: a peer id, or 'peer' (connectWithInfo)
CandKeys == PeerIds \cup {"peer"}
Conns == 1..MaxConns
Slots == 1..MaxCalls
\* the sdp of an offer produced outside the model (a remote host), and a
\* candidate of that host
RemoteSdp == MaxConns + 1
RemoteCand == MaxConns * MaxCands + 1
Cands == 1..RemoteCand

VARIABLES
  currentRoomId,   \* [Mgrs -> Rooms \cup {Null}]   this.currentRoomId
  isHost,          \* [Mgrs -> BOOLEAN]              this.isHost
  connections,     \* [Mgrs -> Seq([peerId, conn])]  this.connections, in Map order
  localConnection, \* [Mgrs -> 0..MaxConns]          this.localConnection (0: null)
  iceCandidates,   \* [Mgrs -> [CandKeys -> Seq(Nat)]] this.iceCandidates (no key: the empty list)
  rtc,             \* [Conns -> record]              transport objects and the PeerConnection entry made for each
  calls,           \* [Mgrs -> [Slots -> record]]    async public calls in flight
  emitted,         \* [Mgrs -> Seq(event)]           events published by the last step
  sent,            \* Seq([conn, msg])               channel.send calls made by the last step
  invoked,         \* the public method the last step called: joinRoom, leaveRoom, disconnect ("" otherwise)
  wire,            \* [Conns -> Seq(Msgs)]           messages in flight towards the remote end of a connection
  codec,           \* the signaling codec applied to one payload on its own: [pc, p, enc, dec]
  facade,          \* the PeerConnect wrapper of manager "H": [pc, roomId, emitted, res]
  peersData        \* [Mgrs -> Seq(peer id)]        the peers list usePeerConnect keeps from peerJoin / peerLeave

vars == <<currentRoomId, isHost, connections, localConnection, iceCandidates,
          rtc, calls, emitted, sent, invoked, wire, codec, facade, peersData>>

\* ---------------------------------------------------------------- values
\* an event published on the manager's EventEmitter
Ev(name, peer, arg, num) == [name |-> name, peer |-> peer, arg |-> arg, num |-> num]

\* an Error, with the peer its message names ("" when it names none)
Err(kind, peer) == [kind |-> kind, peer |-> peer]
NoErr == Err("", "")
Ok == Err("ok", "")

\* the handshake payload, and the string btoa(JSON.stringify(.)) makes of it:
\* b64 says that atob accepts the string, json that JSON.parse accepts the text
Payload(type, sdp, roomId, cands) ==
  [type |-> type, sdp |-> sdp, roomId |-> roomId, candidates |-> cands]
Encode(p) == [b64 |-> TRUE, json |-> TRUE, obj |-> p]
NoInfo == [b64 |-> FALSE, json |-> FALSE, obj |-> Payload("", 0, "", <<>>)]

\* an RTCPeerConnection not constructed yet
FreeConn ==
  [kind |-> "free", mgr |-> "H", pid |-> "",
   dataChannel |-> FALSE, state |-> "", iceConnectionState |-> "",
   localDescription |-> "", remoteDescription |-> 0,
   iceGatheringState |-> "new", connectionState |-> "new", iceState |-> "new",
   readyState |-> "connecting", sendThrows |-> FALSE, closed |-> FALSE,
   onicecandidate |-> FALSE, ncand |-> 0, applied |-> {},
   \* history: the channel has fired its error event
   errored |-> FALSE,
   \* history: the createRoom or connectWithInfo attempt that made the
   \* connection has completed
   completed |-> FALSE]

\* new RTCPeerConnection(...) with the handlers of the place that constructs it:
\*   "room"  createRoom's connection (with its data channel)
\*   "peer"  createPeerConnection's connection (with its data channel)
\*   "offer" handleConnectionInfo's answering connection (no channel kept)
\*   "guest" connectWithInfo's localConnection (no entry, no channel kept)
NewConn(m, kind, pid) ==
  [FreeConn EXCEPT !.kind = kind, !.mgr = m, !.pid = pid,
                   !.dataChannel = (kind \in {"room", "peer"}),
                   !.state = "connecting", !.iceConnectionState = "new",
                   !.onicecandidate = (kind \in {"peer", "guest"})]

\* the slot of no call
NoCall ==
  [op |-> "none", pc |-> "idle", i |-> 0, room |-> Null, msg |-> "", tgt |-> "",
   type |-> "", info |-> NoInfo, sdp |-> 0, c |-> 0, j |-> 0, res |-> NoErr,
   \* the history of the call: attempts started, their errors, time spent in backoff
   n |-> 0, errs |-> <<>>, waited |-> 0]

\* ------------------------------------------------------- Map operations
\* this.connections.get(peerId)?.connection, 0 when there is none
RECURSIVE GetFrom(_, _)
GetFrom(reg, p) ==
  IF reg = <<>> THEN 0
  ELSE IF Head(reg).peerId = p THEN Head(reg).conn
  ELSE GetFrom(Tail(reg), p)

Get(m, p) == GetFrom(connections[m], p)

Has(m, p) == Get(m, p) # 0

\* Map.prototype.set: an existing key keeps its place, a new key goes last
MapSet(reg, p, c) ==
  IF \E n \in 1..Len(reg) : reg[n].peerId = p
  THEN [n \in 1..Len(reg) |->
          IF reg[n].peerId = p THEN [peerId |-> p, conn |-> c] ELSE reg[n]]
  ELSE Append(reg, [peerId |-> p, conn |-> c])

\* Array.from(this.connections.keys())
Keys(reg) == [n \in 1..Len(reg) |-> reg[n].peerId]

\* getPeerIds()
getPeerIds(m) == Keys(connections[m])

\* getCurrentRoom()
getCurrentRoom(m) == currentRoomId[m]

\* the connections of the entries registered on m
RegConns(m) == {connections[m][n].conn : n \in 1..Len(connections[m])}

\* the first RTCPeerConnection not constructed yet
FreeConns == {c \in Conns : rtc[c].kind = "free"}
Alloc == CHOOSE c \in FreeConns : \A d \in FreeConns : c <= d

\* usePeerConnect's handlers applied to the events of one step, in order:
\* peerJoin appends the id to the list, peerLeave filters it out
RECURSIVE Subscribed(_, _)
Subscribed(old, evs) ==
  IF evs = <<>> THEN old
  ELSE LET ev == Head(evs)
           new == IF ev.name = "peerJoin" THEN Append(old, ev.peer)
                  ELSE IF ev.name = "peerLeave"
                  THEN SelectSeq(old, LAMBDA id : id # ev.peer)
                  ELSE old
       IN Subscribed(new, Tail(evs))

\* only manager m publishes in this step (a step of a manager or of the
\* transport; the codec exercised on its own and the PeerConnect wrapper are
\* untouched)
Publish(m, evs) ==
  /\ emitted' = [x \in Mgrs |-> IF x = m THEN evs ELSE <<>>]
  /\ peersData' = [peersData EXCEPT ![m] = Subscribed(@, evs)]
  /\ UNCHANGED <<codec, facade>>

\* a step of a call or of the transport, publishing evs on m
Emit(m, evs) == Publish(m, evs) /\ invoked' = ""

\* a step that is the whole of the public method `name`, publishing evs on m
Called(m, name, evs) == Publish(m, evs) /\ invoked' = name

\* ----------------------------------------------------------------- Init
\* the codec at rest
NoCodec == [pc |-> "idle", p |-> <<>>, enc |-> <<>>, dec |-> <<>>]

\* a PeerConnect just constructed around the manager
NoFacade == [pc |-> "idle", roomId |-> Null, emitted |-> <<>>, res |-> NoErr]

\* a manager just constructed (fields 172-177), nothing in flight
InitManagers ==
  /\ facade = NoFacade
  /\ peersData = [m \in Mgrs |-> <<>>]
  /\ currentRoomId = [m \in Mgrs |-> Null]
  /\ isHost = [m \in Mgrs |-> FALSE]
  /\ connections = [m \in Mgrs |-> <<>>]
  /\ localConnection = [m \in Mgrs |-> 0]
  /\ iceCandidates = [m \in Mgrs |-> [k \in CandKeys |-> <<>>]]
  /\ rtc = [c \in Conns |-> FreeConn]
  /\ calls = [m \in Mgrs |-> [k \in Slots |-> NoCall]]
  /\ emitted = [m \in Mgrs |-> <<>>]
  /\ sent = <<>>
  /\ invoked = ""
  /\ wire = [c \in Conns |-> <<>>]

Init == InitManagers /\ codec = NoCodec

\* ------------------------------------------------- calls and their slots
\* no public call of m is in flight (the caller's discipline of spec section 5)
Quiet(m) == \A k \in Slots : calls[m][k].op = "none"

\* a new call takes the first free slot
FreeSlot(m, k) ==
  /\ calls[m][k].op = "none"
  /\ \A j \in Slots : j < k => calls[m][j].op # "none"

SetCall(m, k, rec) == calls' = [calls EXCEPT ![m][k] = rec]

\* the promise of a call settled at once
Settled(op, p, res) == [NoCall EXCEPT !.op = op, !.pc = "done", !.tgt = p, !.res = res]

\* the caller takes the result of a settled call
Return(m, k) ==
  /\ calls[m][k].pc = "done"
  /\ SetCall(m, k, NoCall)
  /\ Emit(m, <<>>)
  /\ sent' = <<>>
  /\ UNCHANGED <<currentRoomId, isHost, connections, localConnection,
                 iceCandidates, rtc, wire>>

\* ------------------------------------------------------------- leaveRoom
\* RTCPeerConnection.close() after dataChannel?.close(): the connection is
\* closed at once, the channel's close event is still to come
Close(r) ==
  [r EXCEPT !.closed = TRUE, !.connectionState = "closed", !.iceState = "closed",
            !.readyState = IF @ = "closed" THEN "closed" ELSE "closing"]

\* disconnectFromPeer for every entry, in Map order
PeerLeaveEvents(m) ==
  [n \in 1..Len(connections[m]) |-> Ev("peerLeave", connections[m][n].peerId, "", 0)]

\* LeaveEvents with roomLeft published before the peers are disconnected
LeaveEventsRoomLeftFirst(m) ==
  IF currentRoomId[m] = Null THEN <<>>
  ELSE <<Ev("roomLeft", "", currentRoomId[m], 0)>> \o PeerLeaveEvents(m)

\* what leaveRoom publishes
LeaveEvents(m) ==
  IF currentRoomId[m] = Null THEN <<>>
  ELSE PeerLeaveEvents(m) \o <<Ev("roomLeft", "", currentRoomId[m], 0)>>

\* leaveRoom forgetting the entries registered after the first
LeaveRegistryFirstOnly(m) ==
  IF currentRoomId[m] = Null THEN connections[m]
  ELSE SubSeq(connections[m], 2, Len(connections[m]))

\* the registry after leaveRoom
LeaveRegistry(m) == IF currentRoomId[m] = Null THEN connections[m] ELSE <<>>

\* the transport objects after leaveRoom
LeaveRtc(m) ==
  IF currentRoomId[m] = Null THEN rtc
  ELSE [c \in Conns |-> IF c \in RegConns(m) THEN Close(rtc[c]) ELSE rtc[c]]

leaveRoom(m) ==
  /\ currentRoomId' = [currentRoomId EXCEPT ![m] = Null]
  /\ connections' = [connections EXCEPT ![m] = LeaveRegistry(m)]
  /\ rtc' = LeaveRtc(m)
  /\ Called(m, "leaveRoom", LeaveEvents(m))
  /\ sent' = <<>>
  /\ UNCHANGED <<isHost, localConnection, iceCandidates, calls, wire>>

\* disconnect notifying only when it had a room to leave
disconnectOnlyInRoom(m) ==
  /\ currentRoomId' = [currentRoomId EXCEPT ![m] = Null]
  /\ connections' = [connections EXCEPT ![m] = LeaveRegistry(m)]
  /\ rtc' = LeaveRtc(m)
  /\ Called(m, "disconnect",
            IF currentRoomId[m] = Null THEN <<>>
            ELSE LeaveEvents(m) \o <<Ev("disconnect", "", "", 0)>>)
  /\ sent' = <<>>
  /\ UNCHANGED <<isHost, localConnection, iceCandidates, calls, wire>>

disconnect(m) ==
  /\ currentRoomId' = [currentRoomId EXCEPT ![m] = Null]
  /\ connections' = [connections EXCEPT ![m] = LeaveRegistry(m)]
  /\ rtc' = LeaveRtc(m)
  /\ Called(m, "disconnect", LeaveEvents(m) \o <<Ev("disconnect", "", "", 0)>>)
  /\ sent' = <<>>
  /\ UNCHANGED <<isHost, localConnection, iceCandidates, calls, wire>>

joinRoom(m, r) ==
  /\ currentRoomId' = [currentRoomId EXCEPT ![m] = r]
  /\ isHost' = [isHost EXCEPT ![m] = FALSE]
  /\ connections' = [connections EXCEPT ![m] = LeaveRegistry(m)]
  /\ rtc' = LeaveRtc(m)
  /\ Called(m, "joinRoom", LeaveEvents(m) \o <<Ev("roomJoined", "", r, 0)>>)
  /\ sent' = <<>>
  /\ UNCHANGED <<localConnection, iceCandidates, calls, wire>>

\* -------------------------------------------------- createPeerConnection
\* createPeerConnection without its check of the room
createPeerConnectionUnchecked(m, k, p) ==
  /\ FreeSlot(m, k)
  /\ Emit(m, <<>>)
  /\ sent' = <<>>
  /\ FreeConns # {}
  /\ rtc' = [rtc EXCEPT ![Alloc] = NewConn(m, "peer", p)]
  /\ connections' = [connections EXCEPT ![m] = MapSet(@, p, Alloc)]
  /\ SetCall(m, k, Settled("createPeerConnection", p, Ok))
  /\ UNCHANGED <<currentRoomId, isHost, localConnection, iceCandidates, wire>>

createPeerConnection(m, k, p) ==
  /\ FreeSlot(m, k)
  /\ Emit(m, <<>>)
  /\ sent' = <<>>
  /\ IF currentRoomId[m] = Null
     THEN /\ SetCall(m, k, Settled("createPeerConnection", p, Err("NotInRoom", "")))
          /\ UNCHANGED <<connections, rtc>>
     ELSE /\ FreeConns # {}
          /\ rtc' = [rtc EXCEPT ![Alloc] = NewConn(m, "peer", p)]
          /\ connections' = [connections EXCEPT ![m] = MapSet(@, p, Alloc)]
          /\ SetCall(m, k, Settled("createPeerConnection", p, Ok))
  /\ UNCHANGED <<currentRoomId, isHost, localConnection, iceCandidates, wire>>

\* ------------------------------------------------------- retryConnection
\* AttemptFailed with the bound taken one too low: the error is thrown after
\* the second attempt
AttemptFailedEarly(call, err) ==
  IF call.i >= maxRetries - 2
  THEN [call EXCEPT !.pc = "done", !.res = err, !.errs = Append(@, err)]
  ELSE [call EXCEPT !.pc = "backoff", !.errs = Append(@, err)]

\* the catch block: the last attempt's error is thrown, any other is
\* swallowed and followed by the backoff timer
AttemptFailed(call, err) ==
  IF call.i = maxRetries - 1
  THEN [call EXCEPT !.pc = "done", !.res = err, !.errs = Append(@, err)]
  ELSE [call EXCEPT !.pc = "backoff", !.errs = Append(@, err)]

\* fn() returned: retryConnection returns
AttemptSucceeded(call) == [call EXCEPT !.pc = "done", !.res = Ok]

\* Delay with the exponent taken from the attempt number that follows
DelayOfNext(i) == 2 ^ (i + 1)

\* Math.pow(2, i) * 1000 ms, in units of 1000 ms
Delay(i) == 2 ^ i

\* ------------------------------------------------------------ createRoom
\* CreateRoomAttempt without the leaveRoom of the room that is active
CreateRoomAttemptKeeping(m, k, call) ==
  /\ FreeConns # {}
  /\ currentRoomId' = [currentRoomId EXCEPT ![m] = call.room]
  /\ isHost' = [isHost EXCEPT ![m] = TRUE]
  /\ rtc' = [rtc EXCEPT ![Alloc] = NewConn(m, "room", "host")]
  /\ connections' = [connections EXCEPT ![m] = MapSet(@, "host", Alloc)]
  /\ Emit(m, <<>>)
  /\ sent' = <<>>
  /\ SetCall(m, k, [call EXCEPT !.pc = "offer", !.c = Alloc, !.n = @ + 1])
  /\ UNCHANGED <<localConnection, iceCandidates, wire>>

\* the attempt up to its first await (connection.createOffer())
CreateRoomAttempt(m, k, call) ==
  /\ FreeConns # {}
  /\ currentRoomId' = [currentRoomId EXCEPT ![m] = call.room]
  /\ isHost' = [isHost EXCEPT ![m] = TRUE]
  /\ rtc' = [LeaveRtc(m) EXCEPT ![Alloc] = NewConn(m, "room", "host")]
  /\ connections' = [connections EXCEPT ![m] = MapSet(LeaveRegistry(m), "host", Alloc)]
  /\ Emit(m, LeaveEvents(m))
  /\ sent' = <<>>
  /\ SetCall(m, k, [call EXCEPT !.pc = "offer", !.c = Alloc, !.n = @ + 1])
  /\ UNCHANGED <<localConnection, iceCandidates, wire>>

createRoom(m, k, r) ==
  /\ FreeSlot(m, k)
  /\ CreateRoomAttempt(m, k, [NoCall EXCEPT !.op = "createRoom", !.room = r])

\* a step of a call that touches nothing but the call itself
CallStep(m, k, rec) ==
  /\ SetCall(m, k, rec)
  /\ Emit(m, <<>>)
  /\ sent' = <<>>
  /\ UNCHANGED <<currentRoomId, isHost, connections, localConnection,
                 iceCandidates, rtc, wire>>

\* createOffer() resolves: setLocalDescription(offer) is called
CreateRoomOfferResolved(m, k) ==
  /\ calls[m][k].op = "createRoom" /\ calls[m][k].pc = "offer"
  /\ CallStep(m, k, [calls[m][k] EXCEPT !.pc = "setLocal"])

\* createOffer() rejects
CreateRoomOfferRejected(m, k) ==
  /\ calls[m][k].op = "createRoom" /\ calls[m][k].pc = "offer"
  /\ CallStep(m, k, AttemptFailed(calls[m][k], Err("CreateOfferFailed", "")))

\* the transport applies the local description and resolves the promise
CreateRoomSetLocalResolved(m, k) ==
  /\ calls[m][k].op = "createRoom" /\ calls[m][k].pc = "setLocal"
  /\ rtc' = [rtc EXCEPT ![calls[m][k].c].localDescription = "offer"]
  /\ SetCall(m, k, [calls[m][k] EXCEPT !.pc = "setLocalOk"])
  /\ Emit(m, <<>>)
  /\ sent' = <<>>
  /\ UNCHANGED <<currentRoomId, isHost, connections, localConnection,
                 iceCandidates, wire>>

\* setLocalDescription() rejects
CreateRoomSetLocalRejected(m, k) ==
  /\ calls[m][k].op = "createRoom" /\ calls[m][k].pc = "setLocal"
  /\ CallStep(m, k, AttemptFailed(calls[m][k], Err("SetLocalDescriptionFailed", "")))

\* CreateRoomAwaitGathering that never waits: roomJoined at once
CreateRoomWithoutGathering(m, k) ==
  /\ calls[m][k].op = "createRoom" /\ calls[m][k].pc = "setLocalOk"
  /\ rtc' = [rtc EXCEPT ![calls[m][k].c].onicecandidate = TRUE,
                        ![calls[m][k].c].completed = TRUE]
  /\ SetCall(m, k, AttemptSucceeded(calls[m][k]))
  /\ Emit(m, <<Ev("roomJoined", "", calls[m][k].room, 0)>>)
  /\ sent' = <<>>
  /\ UNCHANGED <<currentRoomId, isHost, connections, localConnection,
                 iceCandidates, wire>>

\* CreateRoomAwaitGathering that installs onicegatheringstatechange without
\* looking at iceGatheringState first
CreateRoomAlwaysWaits(m, k) ==
  /\ calls[m][k].op = "createRoom" /\ calls[m][k].pc = "setLocalOk"
  /\ rtc' = [rtc EXCEPT ![calls[m][k].c].onicecandidate = TRUE]
  /\ SetCall(m, k, [calls[m][k] EXCEPT !.pc = "gather"])
  /\ Emit(m, <<>>)
  /\ sent' = <<>>
  /\ UNCHANGED <<currentRoomId, isHost, connections, localConnection,
                 iceCandidates, wire>>

\* after await setLocalDescription: onicecandidate is installed, and the
\* attempt either finds gathering complete or waits for it
CreateRoomAwaitGathering(m, k) ==
  /\ calls[m][k].op = "createRoom" /\ calls[m][k].pc = "setLocalOk"
  /\ rtc' = [rtc EXCEPT ![calls[m][k].c].onicecandidate = TRUE,
                        ![calls[m][k].c].completed =
                           (@ \/ rtc[calls[m][k].c].iceGatheringState = "complete")]
  /\ IF rtc[calls[m][k].c].iceGatheringState = "complete"
     THEN /\ SetCall(m, k, AttemptSucceeded(calls[m][k]))
          /\ Emit(m, <<Ev("roomJoined", "", calls[m][k].room, 0)>>)
     ELSE /\ SetCall(m, k, [calls[m][k] EXCEPT !.pc = "gather"])
          /\ Emit(m, <<>>)
  /\ sent' = <<>>
  /\ UNCHANGED <<currentRoomId, isHost, connections, localConnection,
                 iceCandidates, wire>>

\* ----------------------------------------------------------- sendMessage
\* sendMessageToPeer publishing its echo before channel.send is called
sendMessageToPeerEchoFirst(m, msg, p) ==
  LET c == Get(m, p)
      fail(e) == [res |-> e, sent |-> <<>>, evs |-> <<>>]
  IN IF c = 0 THEN fail(Err("UnknownPeer", p))
     ELSE IF ~rtc[c].dataChannel THEN fail(Err("ChannelNotEstablished", p))
     ELSE IF rtc[c].readyState # "open" THEN fail(Err("ChannelNotOpen", p))
     ELSE IF rtc[c].sendThrows
     THEN [res |-> Err("SendFailed", p), sent |-> <<>>,
           evs |-> <<Ev("message", p, msg, 0)>>]
     ELSE [res |-> Ok, sent |-> <<[conn |-> c, msg |-> msg]>>,
           evs |-> <<Ev("message", p, msg, 0)>>]

\* sendMessageToPeer: its result, the channel.send it makes, the echo it publishes
sendMessageToPeer(m, msg, p) ==
  LET c == Get(m, p)
      fail(e) == [res |-> e, sent |-> <<>>, evs |-> <<>>]
  IN IF c = 0 THEN fail(Err("UnknownPeer", p))
     ELSE IF ~rtc[c].dataChannel THEN fail(Err("ChannelNotEstablished", p))
     ELSE IF rtc[c].readyState # "open" THEN fail(Err("ChannelNotOpen", p))
     ELSE IF rtc[c].sendThrows THEN fail(Err("SendFailed", p))
     ELSE [res |-> Ok, sent |-> <<[conn |-> c, msg |-> msg]>>,
           evs |-> <<Ev("message", p, msg, 0)>>]

\* Promise.all(peers.map(sendMessageToPeer)): every peer's send runs, in Map
\* order; the result is the first rejection in that order
RECURSIVE Broadcast(_, _, _)
Broadcast(m, msg, peers) ==
  IF peers = <<>> THEN [res |-> Ok, sent |-> <<>>, evs |-> <<>>]
  ELSE LET h == sendMessageToPeer(m, msg, Head(peers))
           t == Broadcast(m, msg, Tail(peers))
       IN [res |-> IF h.res # Ok THEN h.res ELSE t.res,
           sent |-> h.sent \o t.sent,
           evs |-> h.evs \o t.evs]

\* SendOnce without its check of the room
SendOnceUnchecked(m, msg, tgt) ==
  IF tgt = "" THEN Broadcast(m, msg, getPeerIds(m))
  ELSE sendMessageToPeer(m, msg, tgt)

\* the function sendMessage hands to retryConnection
SendOnce(m, msg, tgt) ==
  IF currentRoomId[m] = Null
  THEN [res |-> Err("NotInRoom", ""), sent |-> <<>>, evs |-> <<>>]
  ELSE IF tgt = "" THEN Broadcast(m, msg, getPeerIds(m))
  ELSE sendMessageToPeer(m, msg, tgt)

\* the connection at the other end of c's channel: the one that applied c's
\* offer, or the one whose offer c applied
RemoteEnds(c) ==
  {d \in Conns : rtc[d].kind # "free" /\
                 (rtc[d].remoteDescription = c \/ rtc[c].remoteDescription = d)}

\* messages handed to the transport travel when the channel has a remote end
RECURSIVE Carry(_, _)
Carry(w, out) ==
  IF out = <<>> THEN w
  ELSE LET c == Head(out).conn
       IN Carry(IF RemoteEnds(c) = {} THEN w
                ELSE [w EXCEPT ![c] = Append(@, Head(out).msg)], Tail(out))

\* one attempt: it has no await that yields to the transport
SendAttempt(m, k, call) ==
  LET r == SendOnce(m, call.msg, call.tgt)
      started == [call EXCEPT !.n = @ + 1]
  IN /\ SetCall(m, k, IF r.res = Ok THEN AttemptSucceeded(started)
                      ELSE AttemptFailed(started, r.res))
     /\ sent' = r.sent
     /\ wire' = Carry(wire, r.sent)
     /\ Emit(m, r.evs)
     /\ UNCHANGED <<currentRoomId, isHost, connections, localConnection,
                    iceCandidates, rtc>>

sendMessage(m, k, msg, tgt) ==
  /\ FreeSlot(m, k)
  /\ \A c \in Conns : Len(wire[c]) + maxRetries <= MaxWire
  /\ SendAttempt(m, k, [NoCall EXCEPT !.op = "sendMessage", !.msg = msg, !.tgt = tgt])

\* ------------------------------------------------------- connectWithInfo
\* DecodeError without the check of the fields
DecodeErrorUnchecked(info) ==
  IF ~info.b64 THEN Err("InvalidCharacter", "")
  ELSE IF ~info.json THEN Err("SyntaxError", "")
  ELSE Ok

\* JSON.parse(atob(encodedInfo)) and the check of the fields: the error thrown,
\* or Ok
DecodeError(info) ==
  IF ~info.b64 THEN Err("InvalidCharacter", "")
  ELSE IF ~info.json THEN Err("SyntaxError", "")
  ELSE IF info.obj.sdp = 0 \/ info.obj.type = "" \/ info.obj.roomId = ""
  THEN Err("InvalidConnectionInfo", "")
  ELSE Ok

\* the attempt up to its first await (setRemoteDescription(offer))
ConnectAttempt(m, k, call) ==
  IF DecodeError(call.info) # Ok
  THEN CallStep(m, k, AttemptFailed([call EXCEPT !.n = @ + 1], DecodeError(call.info)))
  ELSE /\ FreeConns # {}
       /\ currentRoomId' = [currentRoomId EXCEPT ![m] = call.info.obj.roomId]
       /\ isHost' = [isHost EXCEPT ![m] = FALSE]
       /\ localConnection' = [localConnection EXCEPT ![m] = Alloc]
       /\ rtc' = [rtc EXCEPT ![Alloc] = NewConn(m, "guest", "peer")]
       /\ SetCall(m, k, [call EXCEPT !.pc = "setRemote", !.c = Alloc, !.n = @ + 1])
       /\ Emit(m, <<>>)
       /\ sent' = <<>>
       /\ UNCHANGED <<connections, iceCandidates, wire>>

connectWithInfo(m, k, info) ==
  /\ FreeSlot(m, k)
  /\ ConnectAttempt(m, k, [NoCall EXCEPT !.op = "connectWithInfo", !.info = info])

\* what connectWithInfo publishes once every embedded candidate is added
ConnectDoneEvents(m, call) ==
  <<Ev("connectionInfo", "", "answer", localConnection[m]),
    Ev("roomJoined", "", call.info.obj.roomId, 0)>>

\* setRemoteDescription(offer) resolves: createAnswer() is called
ConnectSetRemoteResolved(m, k) ==
  /\ calls[m][k].op = "connectWithInfo" /\ calls[m][k].pc = "setRemote"
  /\ rtc' = [rtc EXCEPT ![calls[m][k].c].remoteDescription = calls[m][k].info.obj.sdp]
  /\ SetCall(m, k, [calls[m][k] EXCEPT !.pc = "createAnswer", !.c = localConnection[m]])
  /\ Emit(m, <<>>)
  /\ sent' = <<>>
  /\ UNCHANGED <<currentRoomId, isHost, connections, localConnection,
                 iceCandidates, wire>>

\* createAnswer() resolves: setLocalDescription(answer) is called
ConnectAnswerResolved(m, k) ==
  /\ calls[m][k].op = "connectWithInfo" /\ calls[m][k].pc = "createAnswer"
  /\ CallStep(m, k, [calls[m][k] EXCEPT !.pc = "setLocal", !.c = localConnection[m]])

\* setLocalDescription(answer) resolves: the answer is published with the
\* candidates gathered so far, then the embedded candidates are added one by one
ConnectSetLocalResolved(m, k) ==
  /\ calls[m][k].op = "connectWithInfo" /\ calls[m][k].pc = "setLocal"
  /\ rtc' = [rtc EXCEPT ![calls[m][k].c].localDescription = "answer",
                        ![calls[m][k].c].completed =
                           (@ \/ calls[m][k].info.obj.candidates = <<>>)]
  /\ LET first == Ev("connectionInfo", "", "answerWithCandidates",
                     Len(iceCandidates[m]["peer"]))
     IN IF calls[m][k].info.obj.candidates = <<>>
        THEN /\ SetCall(m, k, AttemptSucceeded(calls[m][k]))
             /\ Emit(m, <<first>> \o ConnectDoneEvents(m, calls[m][k]))
        ELSE /\ SetCall(m, k, [calls[m][k] EXCEPT !.pc = "addCandidate", !.j = 1,
                                                  !.c = localConnection[m]])
             /\ Emit(m, <<first>>)
  /\ sent' = <<>>
  /\ UNCHANGED <<currentRoomId, isHost, connections, localConnection,
                 iceCandidates, wire>>

\* addIceCandidate(candidates[j]) resolves
ConnectAddCandidateResolved(m, k) ==
  /\ calls[m][k].op = "connectWithInfo" /\ calls[m][k].pc = "addCandidate"
  /\ rtc' = [rtc EXCEPT ![calls[m][k].c].applied =
                          @ \cup {calls[m][k].info.obj.candidates[calls[m][k].j]},
                        ![calls[m][k].c].completed =
                          (@ \/ calls[m][k].j = Len(calls[m][k].info.obj.candidates))]
  /\ IF calls[m][k].j = Len(calls[m][k].info.obj.candidates)
     THEN /\ SetCall(m, k, AttemptSucceeded(calls[m][k]))
          /\ Emit(m, ConnectDoneEvents(m, calls[m][k]))
     ELSE /\ SetCall(m, k, [calls[m][k] EXCEPT !.j = @ + 1, !.c = localConnection[m]])
          /\ Emit(m, <<>>)
  /\ sent' = <<>>
  /\ UNCHANGED <<currentRoomId, isHost, connections, localConnection,
                 iceCandidates, wire>>

\* the transport rejects the promise connectWithInfo awaits
ConnectRejected(m, k) ==
  /\ calls[m][k].op = "connectWithInfo"
  /\ calls[m][k].pc \in {"setRemote", "createAnswer", "setLocal", "addCandidate"}
  /\ CallStep(m, k, AttemptFailed(calls[m][k], Err("TransportFailure", calls[m][k].pc)))

\* the backoff timer of retryConnection fires: the next attempt starts
RetryTimer(m, k) ==
  /\ calls[m][k].pc = "backoff"
  /\ LET next == [calls[m][k] EXCEPT !.i = @ + 1,
                                     !.waited = @ + Delay(calls[m][k].i)]
     IN CASE calls[m][k].op = "createRoom" -> CreateRoomAttempt(m, k, next)
          [] calls[m][k].op = "sendMessage" -> SendAttempt(m, k, next)
          [] calls[m][k].op = "connectWithInfo" -> ConnectAttempt(m, k, next)
          [] OTHER -> FALSE

\* -------------------------------------------------- handleConnectionInfo
handleConnectionInfo(m, k, type, sdp, p) ==
  /\ FreeSlot(m, k)
  /\ Emit(m, <<>>)
  /\ sent' = <<>>
  /\ UNCHANGED <<currentRoomId, isHost, connections, localConnection,
                 iceCandidates, wire>>
  /\ LET call == [NoCall EXCEPT !.op = "handleConnectionInfo", !.type = type,
                                   !.tgt = p, !.sdp = sdp]
     IN CASE type = "offer" /\ isHost[m] ->
               \* a new answering connection; setRemoteDescription(offer) is awaited
               /\ FreeConns # {}
               /\ rtc' = [rtc EXCEPT ![Alloc] =
                            [NewConn(m, "offer", p) EXCEPT !.state = ""]]
               /\ SetCall(m, k, [call EXCEPT !.pc = "setRemote", !.c = Alloc])
          [] type = "answer" /\ ~isHost[m] /\ Get(m, "host") # 0 ->
               \* setRemoteDescription(answer) on the 'host' entry is awaited
               /\ UNCHANGED rtc
               /\ SetCall(m, k, [call EXCEPT !.pc = "setAnswer", !.c = Get(m, "host")])
          [] OTHER ->
               /\ UNCHANGED rtc
               /\ SetCall(m, k, AttemptSucceeded(call))

\* offer path: setRemoteDescription resolves, createAnswer() is called
HandleSetRemoteResolved(m, k) ==
  /\ calls[m][k].op = "handleConnectionInfo" /\ calls[m][k].pc = "setRemote"
  /\ rtc' = [rtc EXCEPT ![calls[m][k].c].remoteDescription = calls[m][k].sdp]
  /\ SetCall(m, k, [calls[m][k] EXCEPT !.pc = "createAnswer"])
  /\ Emit(m, <<>>)
  /\ sent' = <<>>
  /\ UNCHANGED <<currentRoomId, isHost, connections, localConnection,
                 iceCandidates, wire>>

\* offer path: createAnswer resolves, setLocalDescription(answer) is called
HandleAnswerResolved(m, k) ==
  /\ calls[m][k].op = "handleConnectionInfo" /\ calls[m][k].pc = "createAnswer"
  /\ CallStep(m, k, [calls[m][k] EXCEPT !.pc = "setLocal"])

\* offer path: setLocalDescription resolves; the entry (without a channel) is
\* registered and the answer published
HandleSetLocalResolved(m, k) ==
  /\ calls[m][k].op = "handleConnectionInfo" /\ calls[m][k].pc = "setLocal"
  /\ rtc' = [rtc EXCEPT ![calls[m][k].c].localDescription = "answer",
                        ![calls[m][k].c].state = "connecting"]
  /\ connections' = [connections EXCEPT ![m] = MapSet(@, calls[m][k].tgt, calls[m][k].c)]
  /\ SetCall(m, k, AttemptSucceeded(calls[m][k]))
  /\ Emit(m, <<Ev("connectionInfo", "", "answer", calls[m][k].c)>>)
  /\ sent' = <<>>
  /\ UNCHANGED <<currentRoomId, isHost, localConnection, iceCandidates, wire>>

\* answer path: setRemoteDescription(answer) resolves
HandleSetAnswerResolved(m, k) ==
  /\ calls[m][k].op = "handleConnectionInfo" /\ calls[m][k].pc = "setAnswer"
  /\ rtc' = [rtc EXCEPT ![calls[m][k].c].remoteDescription = calls[m][k].sdp]
  /\ SetCall(m, k, AttemptSucceeded(calls[m][k]))
  /\ Emit(m, <<>>)
  /\ sent' = <<>>
  /\ UNCHANGED <<currentRoomId, isHost, connections, localConnection,
                 iceCandidates, wire>>

\* the transport rejects the promise handleConnectionInfo awaits: no retry
HandleRejected(m, k) ==
  /\ calls[m][k].op = "handleConnectionInfo"
  /\ calls[m][k].pc \in {"setRemote", "createAnswer", "setLocal", "setAnswer"}
  /\ CallStep(m, k, [calls[m][k] EXCEPT !.pc = "done",
                        !.res = Err("TransportFailure", calls[m][k].pc)])

\* ---------------------------------------------------- handleIceCandidate
handleIceCandidate(m, k, cand, p) ==
  /\ FreeSlot(m, k)
  /\ CallStep(m, k,
       IF Get(m, p) # 0
       THEN [NoCall EXCEPT !.op = "handleIceCandidate", !.pc = "addCandidate",
                           !.c = Get(m, p), !.j = cand, !.tgt = p]
       ELSE Settled("handleIceCandidate", p, Ok))

\* addIceCandidate resolves
HandleIceResolved(m, k) ==
  /\ calls[m][k].op = "handleIceCandidate" /\ calls[m][k].pc = "addCandidate"
  /\ rtc' = [rtc EXCEPT ![calls[m][k].c].applied = @ \cup {calls[m][k].j}]
  /\ SetCall(m, k, AttemptSucceeded(calls[m][k]))
  /\ Emit(m, <<>>)
  /\ sent' = <<>>
  /\ UNCHANGED <<currentRoomId, isHost, connections, localConnection,
                 iceCandidates, wire>>

\* addIceCandidate rejects
HandleIceRejected(m, k) ==
  /\ calls[m][k].op = "handleIceCandidate" /\ calls[m][k].pc = "addCandidate"
  /\ CallStep(m, k, [calls[m][k] EXCEPT !.pc = "done",
                        !.res = Err("TransportFailure", "addCandidate")])

\* -------------------------------------------------------------- queries
\* isConnected(peerId = 'host')
isConnected(m, p) ==
  LET c == Get(m, p)
  IN IF c = 0 THEN FALSE
     ELSE (rtc[c].dataChannel /\ rtc[c].readyState = "open")
          \/ rtc[c].connectionState = "connected"

\* getConnectionInfo(): an error, or the encoded payload
getConnectionInfo(m) ==
  IF currentRoomId[m] = Null THEN [res |-> Err("NoActiveRoom", ""), info |-> NoInfo]
  ELSE IF Get(m, "host") = 0 \/ rtc[Get(m, "host")].localDescription = ""
  THEN [res |-> Err("ConnectionInfoUnavailable", ""), info |-> NoInfo]
  ELSE [res |-> Ok,
        info |-> Encode(Payload(rtc[Get(m, "host")].localDescription, Get(m, "host"),
                                currentRoomId[m], iceCandidates[m]["host"]))]

\* ----------------------------------------------------- transport events
\* an event of connection c that only its manager m hears
TransportStep(m, evs) ==
  /\ Emit(m, evs)
  /\ sent' = <<>>
  /\ UNCHANGED <<currentRoomId, isHost, connections, localConnection, wire>>

\* ChannelOpen whose handler for a createPeerConnection entry only logs
ChannelOpenUnmarked(c) ==
  /\ rtc[c].kind # "free" /\ ~rtc[c].closed /\ rtc[c].readyState = "connecting"
  /\ UNCHANGED <<iceCandidates, calls>>
  /\ rtc' = [rtc EXCEPT ![c].readyState = "open"]
  /\ TransportStep(rtc[c].mgr,
       IF rtc[c].kind = "room"
       THEN <<Ev("connectionStateChange", "host", "connected", 0)>> ELSE <<>>)

\* the data channel of c opens
ChannelOpen(c) ==
  /\ rtc[c].kind # "free" /\ ~rtc[c].closed /\ rtc[c].readyState = "connecting"
  /\ UNCHANGED <<iceCandidates, calls>>
  /\ CASE rtc[c].kind = "room" ->
            \* createRoom's dataChannel.onopen
            /\ rtc' = [rtc EXCEPT ![c].readyState = "open"]
            /\ TransportStep(rtc[c].mgr, <<Ev("connectionStateChange", "host", "connected", 0)>>)
       [] rtc[c].kind = "peer" ->
            \* setupPeerConnectionListeners' dataChannel.onopen (it replaced setupDataChannel's)
            /\ rtc' = [rtc EXCEPT ![c].readyState = "open", ![c].state = "connected"]
            /\ TransportStep(rtc[c].mgr,
                 IF rtc[c].state # "connected"
                 THEN <<Ev("connectionStateChange", rtc[c].pid, "connected", 0)>>
                 ELSE <<>>)
       [] OTHER ->
            \* no handler: the remote end's channel is never picked up
            /\ rtc' = [rtc EXCEPT ![c].readyState = "open"]
            /\ TransportStep(rtc[c].mgr, <<>>)

\* the data channel of c closes (or its close event, after close(), arrives)
ChannelClose(c) ==
  /\ rtc[c].kind # "free" /\ rtc[c].readyState \in {"open", "closing"}
  /\ rtc' = [rtc EXCEPT ![c].readyState = "closed"]
  /\ UNCHANGED <<iceCandidates, calls>>
  /\ TransportStep(rtc[c].mgr,
       IF rtc[c].kind = "peer"
       THEN <<Ev("connectionStateChange", rtc[c].pid, "disconnected", 0)>>
       ELSE <<>>)

\* the channel of c fires its error event: createRoom sets no onerror on its
\* channel, and the onerror setupPeerConnectionListeners leaves on the channel
\* of a createPeerConnection entry only logs
ChannelError(c) ==
  /\ rtc[c].kind # "free" /\ rtc[c].dataChannel /\ ~rtc[c].errored
  /\ rtc[c].readyState \in {"connecting", "open"}
  /\ rtc' = [rtc EXCEPT ![c].errored = TRUE]
  /\ UNCHANGED <<iceCandidates, calls>>
  /\ TransportStep(rtc[c].mgr, <<>>)

\* the open channel of c starts to throw on send
ChannelFault(c) ==
  /\ rtc[c].kind # "free" /\ rtc[c].dataChannel
  /\ rtc[c].readyState = "open" /\ ~rtc[c].sendThrows
  /\ rtc' = [rtc EXCEPT ![c].sendThrows = TRUE]
  /\ UNCHANGED <<iceCandidates, calls>>
  /\ TransportStep(rtc[c].mgr, <<>>)

\* iceGatheringState of c advances; createRoom's onicegatheringstatechange
\* resolves its wait when the state is complete
IceGatheringChange(c) ==
  /\ rtc[c].kind # "free" /\ ~rtc[c].closed /\ rtc[c].localDescription # ""
  /\ rtc[c].iceGatheringState # "complete"
  /\ LET m == rtc[c].mgr
         new == IF rtc[c].iceGatheringState = "new" THEN "gathering" ELSE "complete"
         waiting == {k \in Slots : calls[m][k].pc = "gather" /\ calls[m][k].c = c}
     IN /\ rtc' = [rtc EXCEPT ![c].iceGatheringState = new,
                              ![c].completed = (@ \/ (new = "complete" /\ waiting # {}))]
        /\ IF new = "complete" /\ waiting # {}
           THEN /\ calls' = [calls EXCEPT ![m] =
                      [k \in Slots |-> IF k \in waiting
                                       THEN AttemptSucceeded(calls[m][k]) ELSE calls[m][k]]]
                /\ TransportStep(m, [n \in 1..1 |->
                      Ev("roomJoined", "", calls[m][CHOOSE k \in waiting : TRUE].room, 0)])
           ELSE /\ UNCHANGED calls
                /\ TransportStep(m, <<>>)
        /\ UNCHANGED iceCandidates

\* the candidates of connection c are numbered from CandBase(c) + 1
CandBase(c) == (c - 1) * MaxCands

\* the transport discovers a candidate for c
IceCandidate(c) ==
  /\ rtc[c].kind # "free" /\ ~rtc[c].closed
  /\ rtc[c].iceGatheringState = "gathering" /\ rtc[c].ncand < MaxCands
  /\ LET m == rtc[c].mgr
         cand == CandBase(c) + rtc[c].ncand + 1
         key == IF rtc[c].kind = "guest" THEN "peer" ELSE rtc[c].pid
     IN /\ rtc' = [rtc EXCEPT ![c].ncand = @ + 1]
        /\ UNCHANGED calls
        /\ IF rtc[c].onicecandidate
           THEN /\ iceCandidates' = [iceCandidates EXCEPT ![m][key] = Append(@, cand)]
                /\ TransportStep(m, <<Ev("iceCandidate", key, "", cand)>>)
           ELSE /\ UNCHANGED iceCandidates
                /\ TransportStep(m, <<>>)

\* a candidate event of c delivered although c was closed: the handlers are
\* those of IceCandidate, and none of them looks for the entry
LateIceCandidate(c) ==
  /\ rtc[c].kind # "free" /\ rtc[c].closed
  /\ rtc[c].iceGatheringState = "gathering" /\ rtc[c].ncand < MaxCands
  /\ LET m == rtc[c].mgr
         cand == CandBase(c) + rtc[c].ncand + 1
         key == IF rtc[c].kind = "guest" THEN "peer" ELSE rtc[c].pid
     IN /\ rtc' = [rtc EXCEPT ![c].ncand = @ + 1]
        /\ UNCHANGED calls
        /\ IF rtc[c].onicecandidate
           THEN /\ iceCandidates' = [iceCandidates EXCEPT ![m][key] = Append(@, cand)]
                /\ TransportStep(m, <<Ev("iceCandidate", key, "", cand)>>)
           ELSE /\ UNCHANGED iceCandidates
                /\ TransportStep(m, <<>>)

\* iceConnectionState of c becomes s
IceConnectionStateChange(c, s) ==
  /\ rtc[c].kind # "free" /\ ~rtc[c].closed /\ rtc[c].iceState # s
  /\ UNCHANGED <<iceCandidates, calls>>
  /\ LET m == rtc[c].mgr
         e == Get(m, rtc[c].pid)
     IN IF rtc[c].kind = "peer" /\ e # 0
        THEN \* setupPeerConnectionListeners: the entry now registered under the id
             /\ rtc' = [rtc EXCEPT ![c].iceState = s, ![e].iceConnectionState = s,
                                   ![e].state = IF s \in {"connected", "completed"}
                                                THEN "connected" ELSE @]
             /\ TransportStep(m, IF s \in {"connected", "completed"}
                                 THEN <<Ev("connectionStateChange", rtc[c].pid, "connected", 0)>>
                                 ELSE <<>>)
        ELSE \* createRoom and handleConnectionInfo set no handler, connectWithInfo's logs
             /\ rtc' = [rtc EXCEPT ![c].iceState = s]
             /\ TransportStep(m, <<>>)

\* connectionState of c becomes s
ConnectionStateChange(c, s) ==
  /\ rtc[c].kind # "free" /\ ~rtc[c].closed /\ rtc[c].connectionState # s
  /\ UNCHANGED <<iceCandidates, calls>>
  /\ LET m == rtc[c].mgr
         e == Get(m, rtc[c].pid)
     IN CASE rtc[c].kind = "room" ->
               \* createRoom's onconnectionstatechange
               /\ rtc' = [rtc EXCEPT ![c].connectionState = s]
               /\ TransportStep(m, <<Ev("connectionStateChange", "host", s, 0)>>)
          [] rtc[c].kind = "peer" /\ e # 0 /\ s = "connected" ->
               \* setupPeerConnectionListeners: the entry now registered under the id
               /\ rtc' = [rtc EXCEPT ![c].connectionState = s, ![e].state = "connected"]
               /\ TransportStep(m, <<Ev("connectionStateChange", rtc[c].pid, "connected", 0)>>)
          [] OTHER ->
               /\ rtc' = [rtc EXCEPT ![c].connectionState = s]
               /\ TransportStep(m, <<>>)

\* the transport delivers the oldest message in flight on c to the channel's
\* remote end d: the manager sets no onmessage handler on any channel
Deliver(c, d) ==
  /\ wire[c] # <<>> /\ d \in RemoteEnds(c)
  /\ ~rtc[d].closed /\ rtc[d].readyState = "open"
  /\ wire' = [wire EXCEPT ![c] = Tail(@)]
  /\ Emit(rtc[d].mgr, <<>>)
  /\ sent' = <<>>
  /\ UNCHANGED <<currentRoomId, isHost, connections, localConnection,
                 iceCandidates, rtc, calls>>

\* ------------------------------------------------------ signaling codec
\* Text is a sequence of UTF-16 code units. The characters the payloads are
\* made of: a, the quote, the backslash, e-acute (Latin-1) and a CJK character
Quote == 34
Backslash == 92
Chars == {97, Quote, Backslash, 233, 37096}

\* the strings of 1..n characters of an alphabet
Strings(alphabet, n) == UNION {[1..k -> alphabet] : k \in 1..n}

\* JSON values: strings, arrays, objects (members in insertion order)
Str(s) == [k |-> "str", v |-> s]
Arr(a) == [k |-> "arr", v |-> a]
Obj(ms) == [k |-> "obj", v |-> ms]

\* the property names "type", "sdp", "roomId", "candidates", "candidate" and
\* the description types "offer" and "answer"
KeyType == <<116, 121, 112, 101>>
KeySdp == <<115, 100, 112>>
KeyRoomId == <<114, 111, 111, 109, 73, 100>>
KeyCandidates == <<99, 97, 110, 100, 105, 100, 97, 116, 101, 115>>
KeyCandidate == <<99, 97, 110, 100, 105, 100, 97, 116, 101>>
TypeOffer == <<111, 102, 102, 101, 114>>
TypeAnswer == <<97, 110, 115, 119, 101, 114>>

\* the object literal getConnectionInfo hands to JSON.stringify; a candidate
\* serializes (RTCIceCandidate.toJSON) as an object holding its candidate line
HandshakeObject(type, sdp, roomId, cands) ==
  Obj(<< <<KeyType, Str(type)>>, <<KeySdp, Str(sdp)>>, <<KeyRoomId, Str(roomId)>>,
         <<KeyCandidates,
           Arr([n \in 1..Len(cands) |-> Obj(<< <<KeyCandidate, Str(cands[n])>> >>)])>> >>)

\* JSON.stringify: the quote and the backslash are escaped, every other
\* character of Chars is copied
RECURSIVE Escape(_)
Escape(s) ==
  IF s = <<>> THEN <<>>
  ELSE (IF Head(s) \in {Quote, Backslash} THEN <<Backslash, Head(s)>> ELSE <<Head(s)>>)
         \o Escape(Tail(s))

RECURSIVE Stringify(_)
RECURSIVE Elements(_)
RECURSIVE Members(_)
Stringify(x) ==
  CASE x.k = "str" -> <<Quote>> \o Escape(x.v) \o <<Quote>>
    [] x.k = "arr" -> <<91>> \o Elements(x.v) \o <<93>>
    [] x.k = "obj" -> <<123>> \o Members(x.v) \o <<125>>

Elements(a) ==
  IF a = <<>> THEN <<>>
  ELSE Stringify(a[1]) \o (IF Len(a) = 1 THEN <<>> ELSE <<44>> \o Elements(Tail(a)))

Members(ms) ==
  IF ms = <<>> THEN <<>>
  ELSE <<Quote>> \o Escape(ms[1][1]) \o <<Quote, 58>> \o Stringify(ms[1][2])
         \o (IF Len(ms) = 1 THEN <<>> ELSE <<44>> \o Members(Tail(ms)))

\* the result of a function that may throw
Thrown == [ok |-> FALSE, val |-> <<>>]
Returned(v) == [ok |-> TRUE, val |-> v]

\* btoa: throws InvalidCharacterError on a code unit above 0xFF, else the
\* base64 digits (0..63, Pad for '=') of the bytes
Pad == 64
RECURSIVE Base64(_)
Base64(b) ==
  IF b = <<>> THEN <<>>
  ELSE IF Len(b) = 1 THEN <<b[1] \div 4, (b[1] % 4) * 16, Pad, Pad>>
  ELSE IF Len(b) = 2
  THEN <<b[1] \div 4, (b[1] % 4) * 16 + b[2] \div 16, (b[2] % 16) * 4, Pad>>
  ELSE <<b[1] \div 4, (b[1] % 4) * 16 + b[2] \div 16,
         (b[2] % 16) * 4 + b[3] \div 64, b[3] % 64>> \o Base64(SubSeq(b, 4, Len(b)))

btoa(t) ==
  IF \E n \in 1..Len(t) : t[n] > 255 THEN Thrown ELSE Returned(Base64(t))

\* atob: throws on a string that is not base64, else the bytes as a string
RECURSIVE Bytes(_)
Bytes(s) ==
  IF s = <<>> THEN <<>>
  ELSE (IF s[3] = Pad THEN <<s[1] * 4 + s[2] \div 16>>
        ELSE IF s[4] = Pad
        THEN <<s[1] * 4 + s[2] \div 16, (s[2] % 16) * 16 + s[3] \div 4>>
        ELSE <<s[1] * 4 + s[2] \div 16, (s[2] % 16) * 16 + s[3] \div 4,
               (s[3] % 4) * 64 + s[4]>>) \o Bytes(SubSeq(s, 5, Len(s)))

IsBase64(s) ==
  /\ Len(s) % 4 = 0
  /\ \A n \in 1..Len(s) :
       /\ s[n] \in 0..Pad
       /\ s[n] = Pad => /\ n > Len(s) - 2
                        /\ n < Len(s) => s[n + 1] = Pad

atob(s) == IF IsBase64(s) THEN Returned(Bytes(s)) ELSE Thrown

\* JSON.parse of texts made of strings, arrays and objects; `next` is the
\* place after the value read
Unread == [ok |-> FALSE, val |-> <<>>, next |-> 0]
Read(v, next) == [ok |-> TRUE, val |-> v, next |-> next]

RECURSIVE ReadChars(_, _, _)
ReadChars(t, i, acc) ==
  IF i > Len(t) THEN Unread
  ELSE IF t[i] = Quote THEN Read(acc, i + 1)
  ELSE IF t[i] = Backslash
  THEN IF i + 1 <= Len(t) /\ t[i + 1] \in {Quote, Backslash}
       THEN ReadChars(t, i + 2, Append(acc, t[i + 1]))
       ELSE Unread
  ELSE ReadChars(t, i + 1, Append(acc, t[i]))

RECURSIVE ParseValue(_, _)
RECURSIVE ParseElements(_, _, _)
RECURSIVE ParseMembers(_, _, _)
ParseValue(t, i) ==
  IF i > Len(t) THEN Unread
  ELSE CASE t[i] = Quote ->
              LET r == ReadChars(t, i + 1, <<>>)
              IN IF r.ok THEN Read(Str(r.val), r.next) ELSE Unread
         [] t[i] = 91 ->
              IF i + 1 <= Len(t) /\ t[i + 1] = 93 THEN Read(Arr(<<>>), i + 2)
              ELSE ParseElements(t, i + 1, <<>>)
         [] t[i] = 123 ->
              IF i + 1 <= Len(t) /\ t[i + 1] = 125 THEN Read(Obj(<<>>), i + 2)
              ELSE ParseMembers(t, i + 1, <<>>)
         [] OTHER -> Unread

ParseElements(t, i, acc) ==
  LET r == ParseValue(t, i)
  IN IF ~r.ok \/ r.next > Len(t) THEN Unread
     ELSE IF t[r.next] = 44 THEN ParseElements(t, r.next + 1, Append(acc, r.val))
     ELSE IF t[r.next] = 93 THEN Read(Arr(Append(acc, r.val)), r.next + 1)
     ELSE Unread

ParseMembers(t, i, acc) ==
  IF i > Len(t) \/ t[i] # Quote THEN Unread
  ELSE LET key == ReadChars(t, i + 1, <<>>)
       IN IF ~key.ok \/ key.next > Len(t) \/ t[key.next] # 58 THEN Unread
          ELSE LET r == ParseValue(t, key.next + 1)
               IN IF ~r.ok \/ r.next > Len(t) THEN Unread
                  ELSE IF t[r.next] = 44
                  THEN ParseMembers(t, r.next + 1, Append(acc, <<key.val, r.val>>))
                  ELSE IF t[r.next] = 125
                  THEN Read(Obj(Append(acc, <<key.val, r.val>>)), r.next + 1)
                  ELSE Unread

JSONparse(t) ==
  LET r == ParseValue(t, 1)
  IN IF r.ok /\ r.next = Len(t) + 1 THEN Returned(r.val) ELSE Thrown

encodeSignalingData(data) == btoa(Stringify(data))

decodeSignalingData(encodedData) ==
  LET text == atob(encodedData)
  IN IF text.ok THEN JSONparse(text.val) ELSE Thrown

\* the valid handshake payloads: an offer or an answer, a description, a room
\* id and the candidates gathered
ValidPayloads ==
  {HandshakeObject(t, s, r, c) :
     t \in {TypeOffer, TypeAnswer},
     s \in Strings({97, Quote}, MaxStr),
     r \in Strings(Chars, MaxStr),
     c \in {<<>>} \cup {<<x>> : x \in Strings({97, Backslash}, 1)}}

\* the codec applied to one payload: encode, then decode what encode returned
EncodeStep ==
  /\ codec.pc = "input"
  /\ codec' = [codec EXCEPT !.pc = "encoded", !.enc = encodeSignalingData(codec.p)]
  /\ UNCHANGED <<currentRoomId, isHost, connections, localConnection, iceCandidates,
                 rtc, calls, emitted, sent, invoked, wire, facade, peersData>>

DecodeStep ==
  /\ codec.pc = "encoded" /\ codec.enc.ok
  /\ codec' = [codec EXCEPT !.pc = "decoded", !.dec = decodeSignalingData(codec.enc.val)]
  /\ UNCHANGED <<currentRoomId, isHost, connections, localConnection, iceCandidates,
                 rtc, calls, emitted, sent, invoked, wire, facade, peersData>>

InitCodec ==
  /\ InitManagers
  /\ codec \in {[NoCodec EXCEPT !.pc = "input", !.p = p] : p \in ValidPayloads}

NextCodec == EncodeStep \/ DecodeStep

SpecCodec == InitCodec /\ [][NextCodec]_vars

\* ------------------------------------------------------------ PeerConnect
\* PeerConnect.connect() is called: manager.createRoom(this.roomId) is the
\* call it makes and awaits
PeerConnectConnect(r) ==
  /\ facade.pc # "awaiting" /\ Quiet("H")
  /\ facade' = [pc |-> "awaiting", roomId |-> r, emitted |-> <<>>, res |-> NoErr]
  /\ UNCHANGED <<currentRoomId, isHost, connections, localConnection, iceCandidates,
                 rtc, calls, emitted, sent, invoked, wire, codec, peersData>>

\* the createRoom that connect() makes
PeerConnectCreateRoom ==
  /\ facade.pc = "awaiting" /\ calls["H"][1].op = "none"
  /\ createRoom("H", 1, facade.roomId)

\* PeerConnectSettled emitting connect whatever createRoom's promise gave
PeerConnectSettledBlind ==
  /\ facade.pc = "awaiting" /\ calls["H"][1].pc = "done"
  /\ facade' = [facade EXCEPT !.pc = "done", !.res = calls["H"][1].res,
                              !.emitted = <<Ev("connect", "", "", 0)>>]
  /\ calls' = [calls EXCEPT !["H"][1] = NoCall]
  /\ emitted' = [x \in Mgrs |-> <<>>]
  /\ invoked' = ""
  /\ sent' = <<>>
  /\ UNCHANGED <<currentRoomId, isHost, connections, localConnection, iceCandidates,
                 rtc, wire, codec, peersData>>

\* createRoom's promise settles and connect() resumes: it emits connect, or
\* emits error with the rejection and rethrows it
PeerConnectSettled ==
  /\ facade.pc = "awaiting" /\ calls["H"][1].pc = "done"
  /\ facade' = [facade EXCEPT !.pc = "done", !.res = calls["H"][1].res,
                              !.emitted = IF calls["H"][1].res = Ok
                                          THEN <<Ev("connect", "", "", 0)>>
                                          ELSE <<Ev("error", "", calls["H"][1].res, 0)>>]
  /\ calls' = [calls EXCEPT !["H"][1] = NoCall]
  /\ emitted' = [x \in Mgrs |-> <<>>]
  /\ invoked' = ""
  /\ sent' = <<>>
  /\ UNCHANGED <<currentRoomId, isHost, connections, localConnection, iceCandidates,
                 rtc, wire, codec, peersData>>

\* ------------------------------------------------------- specifications
\* the strings a caller of the lone manager passes to connectWithInfo
Infos ==
  {Encode(Payload("offer", RemoteSdp, "r1", <<RemoteCand>>)),
   Encode(Payload("offer", RemoteSdp, "", <<>>)),
   Encode(Payload("offer", 0, "r1", <<>>)),
   Encode(Payload("", RemoteSdp, "r1", <<>>)),
   [Encode(Payload("offer", RemoteSdp, "r1", <<>>)) EXCEPT !.json = FALSE],
   NoInfo}

\* a caller that awaits each call: no public method is called on m while
\* another call on m is in flight
Disciplined(m, A) == Quiet(m) /\ A

\* room lifecycle on one manager: createRoom with its retries, joinRoom,
\* leaveRoom, disconnect, peers registered by createPeerConnection and by the
\* offer path, and the progress of candidate gathering
Next ==
  \/ \E r \in Rooms : Disciplined("H", createRoom("H", 1, r))
  \/ \E r \in Rooms : Disciplined("H", joinRoom("H", r))
  \/ Disciplined("H", leaveRoom("H"))
  \/ Disciplined("H", disconnect("H"))
  \/ \E p \in {"host", "p1"} : Disciplined("H", createPeerConnection("H", 1, p))
  \/ \E t \in {"offer", "answer"} :
       Disciplined("H", handleConnectionInfo("H", 1, t, RemoteSdp, "p2"))
  \/ Return("H", 1)
  \/ RetryTimer("H", 1)
  \/ CreateRoomOfferResolved("H", 1)
  \/ CreateRoomOfferRejected("H", 1)
  \/ CreateRoomSetLocalResolved("H", 1)
  \/ CreateRoomSetLocalRejected("H", 1)
  \/ CreateRoomAwaitGathering("H", 1)
  \/ HandleSetRemoteResolved("H", 1)
  \/ HandleAnswerResolved("H", 1)
  \/ HandleSetLocalResolved("H", 1)
  \/ HandleSetAnswerResolved("H", 1)
  \/ HandleRejected("H", 1)
  \/ \E c \in Conns : IceGatheringChange(c)

Spec == Init /\ [][Next]_vars

\* messaging on one manager: a room made by createRoom, peers registered by
\* createPeerConnection (with a channel) and by the offer path (without one),
\* the channels of the registered entries opening, closing and starting to
\* throw, targeted and broadcast sendMessage with its retries, and leaveRoom
NextMsg ==
  \/ Disciplined("H", createRoom("H", 1, "r1"))
  \/ Disciplined("H", leaveRoom("H"))
  \/ Disciplined("H", createPeerConnection("H", 1, "p1"))
  \/ Disciplined("H", handleConnectionInfo("H", 1, "offer", RemoteSdp, "p2"))
  \/ \E tgt \in {"", "p1", "p2"} : Disciplined("H", sendMessage("H", 1, "m1", tgt))
  \/ Return("H", 1)
  \/ RetryTimer("H", 1)
  \/ CreateRoomOfferResolved("H", 1)
  \/ CreateRoomSetLocalResolved("H", 1)
  \/ CreateRoomAwaitGathering("H", 1)
  \/ HandleSetRemoteResolved("H", 1)
  \/ HandleAnswerResolved("H", 1)
  \/ HandleSetLocalResolved("H", 1)
  \/ \E c \in RegConns("H") : rtc[c].kind = "room" /\ IceGatheringChange(c)
  \/ \E c \in RegConns("H") : rtc[c].dataChannel /\ ChannelOpen(c)
  \/ \E c \in RegConns("H") : rtc[c].dataChannel /\ ChannelClose(c)
  \/ \E c \in RegConns("H") : rtc[c].dataChannel /\ ChannelFault(c)

SpecMsg == Init /\ [][NextMsg]_vars

\* a Host and a Guest: the Host's createRoom, its getConnectionInfo string
\* handed to the Guest's connectWithInfo, the Guest's answer and candidates
\* handed back through handleConnectionInfo and handleIceCandidate, channels
\* that open, the Host's sendMessage and the transport's delivery
NextPair ==
  \/ Disciplined("H", createRoom("H", 1, "r1"))
  \/ CreateRoomOfferResolved("H", 1)
  \/ CreateRoomSetLocalResolved("H", 1)
  \/ CreateRoomAwaitGathering("H", 1)
  \/ /\ Quiet("H") /\ getConnectionInfo("H").res = Ok
     /\ Disciplined("G", connectWithInfo("G", 1, getConnectionInfo("H").info))
  \/ ConnectSetRemoteResolved("G", 1)
  \/ ConnectAnswerResolved("G", 1)
  \/ ConnectSetLocalResolved("G", 1)
  \/ ConnectAddCandidateResolved("G", 1)
  \/ /\ localConnection["G"] # 0 /\ rtc[localConnection["G"]].localDescription = "answer"
     /\ Disciplined("H", handleConnectionInfo("H", 1, "answer", localConnection["G"], "p1"))
  \/ \E n \in 1..Len(iceCandidates["G"]["peer"]) :
       Disciplined("H", handleIceCandidate("H", 1, iceCandidates["G"]["peer"][n], "host"))
  \/ \E n \in 1..Len(iceCandidates["H"]["host"]) :
       Disciplined("G", handleIceCandidate("G", 1, iceCandidates["H"]["host"][n], "host"))
  \/ HandleIceResolved("H", 1)
  \/ \E tgt \in {"", "host"} : Disciplined("H", sendMessage("H", 1, "m1", tgt))
  \/ RetryTimer("H", 1)
  \/ Return("H", 1)
  \/ Return("G", 1)
  \/ \E c \in Conns : IceGatheringChange(c)
  \/ \E c \in Conns : IceCandidate(c)
  \/ \E c \in Conns : ChannelOpen(c)
  \/ \E c, d \in Conns : Deliver(c, d)

SpecPair == Init /\ [][NextPair]_vars

\* the event loop runs every continuation that is ready and every timer that
\* is due, and the transport delivers what it was handed
PairFairness ==
  /\ WF_vars(\E c, d \in Conns : Deliver(c, d))
  /\ WF_vars(RetryTimer("H", 1))
  /\ WF_vars(Return("H", 1) \/ Return("G", 1))

SpecPairLive == SpecPair /\ PairFairness

\* candidate gathering on one manager: createRoom with its retries, the
\* transport discovering candidates and advancing the gathering state of
\* every connection, and leaveRoom
NextGather ==
  \/ \E r \in Rooms : Disciplined("H", createRoom("H", 1, r))
  \/ Disciplined("H", leaveRoom("H"))
  \/ Return("H", 1)
  \/ RetryTimer("H", 1)
  \/ CreateRoomOfferResolved("H", 1)
  \/ CreateRoomOfferRejected("H", 1)
  \/ CreateRoomSetLocalResolved("H", 1)
  \/ CreateRoomAwaitGathering("H", 1)
  \/ \E c \in Conns : IceGatheringChange(c)
  \/ \E c \in Conns : IceCandidate(c)

SpecGather == Init /\ [][NextGather]_vars


\* the guest side on one manager: connectWithInfo with well-formed and
\* malformed strings and its retries, joinRoom, leaveRoom, a peer registered
\* by createPeerConnection, and the candidates of the guest's latest connection
NextJoin ==
  \/ \E info \in Infos : Disciplined("G", connectWithInfo("G", 1, info))
  \/ Disciplined("G", joinRoom("G", "r2"))
  \/ Disciplined("G", leaveRoom("G"))
  \/ Disciplined("G", createPeerConnection("G", 1, "p1"))
  \/ ConnectSetRemoteResolved("G", 1)
  \/ ConnectAnswerResolved("G", 1)
  \/ ConnectSetLocalResolved("G", 1)
  \/ ConnectAddCandidateResolved("G", 1)
  \/ calls["G"][1].pc = "setRemote" /\ ConnectRejected("G", 1)
  \/ RetryTimer("G", 1)
  \/ Return("G", 1)
  \/ \E c \in Conns : c = localConnection["G"] /\ IceGatheringChange(c)
  \/ \E c \in Conns : c = localConnection["G"] /\ IceCandidate(c)

SpecJoin == Init /\ [][NextJoin]_vars

\* the wrapper: connect() called again and again, the createRoom it awaits
\* with its retries, and the transport's part in it
NextFacade ==
  \/ \E r \in Rooms : PeerConnectConnect(r)
  \/ PeerConnectCreateRoom
  \/ PeerConnectSettled
  \/ RetryTimer("H", 1)
  \/ CreateRoomOfferResolved("H", 1)
  \/ CreateRoomOfferRejected("H", 1)
  \/ CreateRoomSetLocalResolved("H", 1)
  \/ CreateRoomSetLocalRejected("H", 1)
  \/ CreateRoomAwaitGathering("H", 1)
  \/ \E c \in Conns : IceGatheringChange(c)

SpecFacade == Init /\ [][NextFacade]_vars

\* a caller that does not await: createRoom is called again, or after a
\* connectWithInfo, while the first call is suspended at one of its waits
NextOverlap ==
  \/ Disciplined("H", createRoom("H", 1, "r1"))
  \/ Disciplined("H", connectWithInfo("H", 1, Encode(Payload("offer", RemoteSdp, "r1", <<>>))))
  \/ calls["H"][1].pc \notin {"idle", "done"} /\ createRoom("H", 2, "r2")
  \/ \E k \in Slots : CreateRoomOfferResolved("H", k)
  \/ \E k \in Slots : CreateRoomSetLocalResolved("H", k)
  \/ \E k \in Slots : CreateRoomAwaitGathering("H", k)
  \/ \E k \in Slots : CreateRoomOfferRejected("H", k)
  \/ \E k \in Slots : RetryTimer("H", k)
  \/ ConnectSetRemoteResolved("H", 1)
  \/ ConnectAnswerResolved("H", 1)
  \/ ConnectSetLocalResolved("H", 1)
  \/ \E k \in Slots : Return("H", k)
  \/ \E c \in Conns : IceGatheringChange(c)

SpecOverlap == Init /\ [][NextOverlap]_vars

\* the entries of one manager and their transport: a room made by createRoom,
\* a peer registered once by createPeerConnection, the channels of the
\* registered entries opening, closing and failing, connectivity being
\* established for the peer, leaveRoom, and the close events that arrive after it
NextPeer ==
  \/ Disciplined("H", createRoom("H", 1, "r1"))
  \/ Disciplined("H", leaveRoom("H"))
  \/ ~Has("H", "p1") /\ Disciplined("H", createPeerConnection("H", 1, "p1"))
  \/ Return("H", 1)
  \/ CreateRoomOfferResolved("H", 1)
  \/ CreateRoomSetLocalResolved("H", 1)
  \/ CreateRoomAwaitGathering("H", 1)
  \/ \E c \in RegConns("H") : IceGatheringChange(c)
  \/ \E c \in RegConns("H") : rtc[c].dataChannel /\ ChannelOpen(c)
  \/ \E c \in Conns : rtc[c].dataChannel /\ ChannelClose(c)
  \/ \E c \in RegConns("H") : ChannelError(c)
  \/ \E c \in RegConns("H") : rtc[c].kind = "peer" /\ ConnectionStateChange(c, "connected")
  \/ \E c \in RegConns("H"), s \in {"connected", "completed"} :
       rtc[c].kind = "peer" /\ IceConnectionStateChange(c, s)

SpecPeer == Init /\ [][NextPeer]_vars

\* callbacks after teardown on one manager: createRoom, and leaveRoom called
\* by a caller that is idle or whose createRoom waits for gathering, so that
\* the connection is closed while the transport still has events for it
NextLate ==
  \/ \E r \in Rooms : Disciplined("H", createRoom("H", 1, r))
  \/ (Quiet("H") \/ calls["H"][1].pc = "gather") /\ leaveRoom("H")
  \/ Return("H", 1)
  \/ CreateRoomOfferResolved("H", 1)
  \/ CreateRoomSetLocalResolved("H", 1)
  \/ CreateRoomAwaitGathering("H", 1)
  \/ \E c \in Conns : IceGatheringChange(c)
  \/ \E c \in Conns : IceCandidate(c)
  \/ \E c \in Conns : LateIceCandidate(c)
  \/ \E c \in Conns : rtc[c].dataChannel /\ ChannelOpen(c)
  \/ \E c \in Conns : rtc[c].dataChannel /\ ChannelClose(c)

SpecLate == Init /\ [][NextLate]_vars

\* createRoom under a transport whose offer and local description succeed:
\* the caller waits for each createRoom, and leaves the room only between
\* calls
NextLive ==
  \/ \E r \in Rooms : Disciplined("H", createRoom("H", 1, r))
  \/ Disciplined("H", leaveRoom("H"))
  \/ Return("H", 1)
  \/ CreateRoomOfferResolved("H", 1)
  \/ CreateRoomSetLocalResolved("H", 1)
  \/ CreateRoomAwaitGathering("H", 1)
  \/ \E c \in Conns : IceGatheringChange(c)
  \/ \E c \in Conns : IceCandidate(c)

\* the promises of createOffer and setLocalDescription settle, the
\* continuation after an await runs, and the transport goes on to report the
\* gathering state of a connection that has its local description
SpecLive ==
  /\ Init /\ [][NextLive]_vars
  /\ WF_vars(CreateRoomOfferResolved("H", 1))
  /\ WF_vars(CreateRoomSetLocalResolved("H", 1))
  /\ WF_vars(CreateRoomAwaitGathering("H", 1))
  /\ \A c \in Conns : WF_vars(IceGatheringChange(c))

\* createRoom is suspended at one of its awaits
Suspended(m, k) ==
  calls[m][k].op = "createRoom" /\ calls[m][k].pc \in {"offer", "setLocal", "setLocalOk", "gather"}

\* a caller that does not wait for createRoom: leaveRoom, disconnect and
\* joinRoom are called while createRoom is suspended as well as between calls
NextSuspend ==
  \/ \E r \in Rooms : Disciplined("H", createRoom("H", 1, r))
  \/ (Quiet("H") \/ Suspended("H", 1)) /\ leaveRoom("H")
  \/ (Quiet("H") \/ Suspended("H", 1)) /\ disconnect("H")
  \/ \E r \in Rooms : (Quiet("H") \/ Suspended("H", 1)) /\ joinRoom("H", r)
  \/ Return("H", 1)
  \/ CreateRoomOfferResolved("H", 1)
  \/ CreateRoomSetLocalResolved("H", 1)
  \/ CreateRoomAwaitGathering("H", 1)
  \/ \E c \in Conns : IceGatheringChange(c)

SpecSuspend == Init /\ [][NextSuspend]_vars

\* entries replaced under their peer id: createPeerConnection called again
\* for p1, and after leaveRoom, while the transport goes on to report the
\* state of every connection that was not closed
NextStale ==
  \/ Disciplined("H", joinRoom("H", "r1"))
  \/ Disciplined("H", leaveRoom("H"))
  \/ Disciplined("H", createPeerConnection("H", 1, "p1"))
  \/ Return("H", 1)
  \/ \E c \in Conns : rtc[c].dataChannel /\ ChannelOpen(c)
  \/ \E c \in Conns : rtc[c].kind = "peer" /\ ConnectionStateChange(c, "connected")
  \/ \E c \in Conns : rtc[c].kind = "peer" /\ IceConnectionStateChange(c, "connected")

SpecStale == Init /\ [][NextStale]_vars

\* ============================================================ properties
\* the call in slot k of manager m
Call(m, k) == calls[m][k]
Done(m, k, op) == Call(m, k).op = op /\ Call(m, k).pc = "done"
Published(m, name) == \E n \in 1..Len(emitted[m]) : emitted[m][n].name = name
PublishedFor(m, name, p) ==
  \E n \in 1..Len(emitted[m]) : emitted[m][n].name = name /\ emitted[m][n].peer = p

\* C1: a sendMessage, targeted or broadcast, invoked while no room is active
\* (before any room, or after leaveRoom) fails with NotInRoom: every attempt
\* of the call fails with NotInRoom, so does the call, no channel.send is made
\* and no message event is published.
C1_SendWithoutRoom ==
  \A k \in Slots :
    Call("H", k).op = "sendMessage" /\ getCurrentRoom("H") = Null =>
      /\ Call("H", k).pc \in {"backoff", "done"}
      /\ Len(Call("H", k).errs) = Call("H", k).n
      /\ \A n \in 1..Len(Call("H", k).errs) :
            Call("H", k).errs[n] = Err("NotInRoom", "")
      /\ (Call("H", k).pc = "done" => Call("H", k).res = Err("NotInRoom", ""))
      /\ sent = <<>>
      /\ ~Published("H", "message")

\* a targeted sendMessage made after leaveRoom ended a room with a peer has
\* been rejected with NotInRoom
C1_Witness ==
  /\ Done("H", 1, "sendMessage") /\ Call("H", 1).tgt = "p1"
  /\ Call("H", 1).res = Err("NotInRoom", "")
  /\ getCurrentRoom("H") = Null
  /\ \E c \in Conns : rtc[c].kind = "peer" /\ rtc[c].pid = "p1" /\ rtc[c].closed

\* C2: once createRoom(r) has completed successfully getCurrentRoom() is r,
\* and a leaveRoom() or disconnect() that ends the room leaves
\* getCurrentRoom() null and getPeerIds() empty, whatever entries the room held
\* (the leaveRoom of a manager with no room leaves getCurrentRoom() null).
C2_RoomLifecycle ==
  [][ /\ (Done("H", 1, "createRoom")' /\ Call("H", 1)'.res = Ok /\ ~Done("H", 1, "createRoom")
            => getCurrentRoom("H")' = Call("H", 1)'.room)
      /\ (Done("H", 1, "createRoom") /\ Call("H", 1).res = Ok
            => getCurrentRoom("H") = Call("H", 1).room)
      /\ (invoked' \in {"leaveRoom", "disconnect"}
            => /\ getCurrentRoom("H")' = Null
               /\ (currentRoomId["H"] # Null => getPeerIds("H")' = <<>>)) ]_vars

\* a leaveRoom that ended a room holding the host entry, a createPeerConnection
\* entry and an offer-path entry
C2_Witness ==
  /\ invoked = "leaveRoom"
  /\ PublishedFor("H", "peerLeave", "host")
  /\ PublishedFor("H", "peerLeave", "p1")
  /\ PublishedFor("H", "peerLeave", "p2")
  /\ Published("H", "roomLeft")
  /\ getCurrentRoom("H") = Null /\ getPeerIds("H") = <<>>

\* C3: createRoom runs its operation at most 3 times; it never starts an
\* attempt after a successful one (the attempts are the failed ones plus the
\* one running or succeeded); it succeeds with the attempt that succeeds, and
\* rejects only after exactly 3 failed attempts, with the error of the third.
C3_RetryBound ==
  \A m \in Mgrs, k \in Slots :
    Call(m, k).op = "createRoom" =>
      /\ Call(m, k).n <= 3
      /\ Call(m, k).n = Len(Call(m, k).errs) +
           (IF Call(m, k).pc = "backoff" \/ (Call(m, k).pc = "done" /\ Call(m, k).res # Ok)
            THEN 0 ELSE 1)
      /\ (Call(m, k).pc = "done" /\ Call(m, k).res # Ok
            => /\ Call(m, k).n = 3
               /\ Len(Call(m, k).errs) = 3
               /\ Call(m, k).res = Call(m, k).errs[3])

\* two failed attempts, with different errors, then a successful third
C3_Witness ==
  /\ Done("H", 1, "createRoom") /\ Call("H", 1).res = Ok
  /\ Call("H", 1).n = 3 /\ Len(Call("H", 1).errs) = 2
  /\ Call("H", 1).errs[1] # Call("H", 1).errs[2]

\* C4: a createRoom that rejected after its last retry leaves the manager
\* Idle: getCurrentRoom() is null and getPeerIds() is empty.
C4_IdleAfterExhaustedRetries ==
  \A k \in Slots :
    Done("H", k, "createRoom") /\ Call("H", k).res # Ok
      => getCurrentRoom("H") = Null /\ getPeerIds("H") = <<>>

\* the send to peer p can succeed: p has an entry with an open channel that
\* does not throw
CanSucceed(m, p) ==
  /\ Has(m, p) /\ rtc[Get(m, p)].dataChannel
  /\ rtc[Get(m, p)].readyState = "open" /\ ~rtc[Get(m, p)].sendThrows

\* the first peer, in the order of the registry, whose send cannot succeed
FirstFailing(m) ==
  LET peers == getPeerIds(m)
  IN peers[CHOOSE n \in 1..Len(peers) :
             /\ ~CanSucceed(m, peers[n])
             /\ \A j \in 1..(n - 1) : CanSucceed(m, peers[j])]

\* C7: a broadcast sendMessage in an active room issues exactly one send to
\* every peer known at call time whose send can succeed, whatever the other
\* peers' sends do, and when the send to some peer B fails the call rejects
\* with B's error, the first failure encountered.
C7_BroadcastFanOut ==
  [][ \A k \in Slots :
        LET call == Call("H", k)'
            peers == getPeerIds("H")
        IN /\ (/\ Call("H", k).op = "none" /\ call.op = "sendMessage"
                /\ call.tgt = "" /\ getCurrentRoom("H") # Null)
                => /\ \A n \in 1..Len(peers) :
                        CanSucceed("H", peers[n]) =>
                          Cardinality({j \in 1..Len(sent') :
                             sent'[j] = [conn |-> Get("H", peers[n]), msg |-> call.msg]}) = 1
                   /\ (\E n \in 1..Len(peers) : ~CanSucceed("H", peers[n]))
                        => /\ call.errs # <<>>
                           /\ call.errs[1].peer = FirstFailing("H")
           /\ (/\ call.op = "sendMessage" /\ call.tgt = ""
                /\ call.errs # <<>> /\ call.pc = "done")
                => call.res = call.errs[1] ]_vars

\* C8: createPeerConnection(p) with no active room fails with NotInRoom and
\* changes neither the registry nor the transport; with an active room it
\* registers an entry for p, Connecting and with a channel, before it returns.
C8_CreatePeerConnection ==
  [][ Call("H", 1).op = "none" /\ Call("H", 1)'.op = "createPeerConnection"
        => LET p == Call("H", 1)'.tgt
           IN IF getCurrentRoom("H") = Null
              THEN /\ Call("H", 1)'.res = Err("NotInRoom", "")
                   /\ connections' = connections
                   /\ rtc' = rtc
              ELSE /\ Call("H", 1)'.res = Ok
                   /\ p \in {getPeerIds("H")'[n] : n \in 1..Len(getPeerIds("H")')}
                   /\ rtc'[GetFrom(connections'["H"], p)].state = "connecting"
                   /\ rtc'[GetFrom(connections'["H"], p)].dataChannel
                   /\ rtc[GetFrom(connections'["H"], p)].kind = "free" ]_vars

\* createPeerConnection('p1') returned on the Host of a room made by createRoom
C8_Witness ==
  /\ Done("H", 1, "createPeerConnection") /\ Call("H", 1).res = Ok
  /\ Call("H", 1).tgt = "p1"
  /\ isHost["H"] /\ getCurrentRoom("H") # Null
  /\ Has("H", "host") /\ rtc[Get("H", "host")].completed
  /\ Has("H", "p1")

\* the error the checks of sendMessageToPeer give for peer p ("" when they pass)
PreconditionError(m, p) ==
  IF ~Has(m, p) THEN "UnknownPeer"
  ELSE IF ~rtc[Get(m, p)].dataChannel THEN "ChannelNotEstablished"
  ELSE IF rtc[Get(m, p)].readyState # "open" THEN "ChannelNotOpen"
  ELSE ""

\* C9: a targeted sendMessage(msg, p) in an active room fails with UnknownPeer
\* when p has no entry, else with ChannelNotEstablished when the entry has no
\* channel, else with ChannelNotOpen when the channel is not open; in each of
\* these cases the call is rejected with that error, nothing is sent on any
\* channel and no message event is published.
C9_TargetedSendErrors ==
  [][ \A k \in Slots :
        LET call == Call("H", k)'
        IN /\ (/\ Call("H", k).op = "none" /\ call.op = "sendMessage"
                /\ call.tgt # "" /\ getCurrentRoom("H") # Null
                /\ PreconditionError("H", call.tgt) # "")
                => /\ call.errs = <<Err(PreconditionError("H", call.tgt), call.tgt)>>
                   /\ sent' = <<>>
                   /\ ~Published("H", "message")'
           /\ (/\ call.op = "sendMessage" /\ call.tgt # "" /\ call.errs # <<>>
                /\ call.errs[1].kind \in
                     {"UnknownPeer", "ChannelNotEstablished", "ChannelNotOpen"})
                => /\ sent' = <<>>
                   /\ ~Published("H", "message")'
                   /\ (call.pc = "done" => call.res = call.errs[1]) ]_vars

\* the Host's connection of its 'host' entry, and the Guest's connection
HostConn == Get("H", "host")
GuestConn == localConnection["G"]

\* the Host completed createRoom and the Guest completed connectWithInfo with
\* the Host's getConnectionInfo() output
Paired ==
  /\ HostConn # 0 /\ rtc[HostConn].completed
  /\ GuestConn # 0 /\ rtc[GuestConn].completed
  /\ rtc[GuestConn].remoteDescription = HostConn
  /\ currentRoomId["G"] = currentRoomId["H"]

\* the Guest's answer was handed to the Host's handleConnectionInfo, which has
\* just returned, and every candidate gathered on one side was handed to the other
Exchanged ==
  /\ Done("H", 1, "handleConnectionInfo") /\ Call("H", 1).res = Ok
  /\ Call("H", 1).type = "answer" /\ Call("H", 1).sdp = GuestConn
  /\ \A n \in 1..Len(iceCandidates["G"]["peer"]) :
       iceCandidates["G"]["peer"][n] \in rtc[HostConn].applied
  /\ \A n \in 1..Len(iceCandidates["H"]["host"]) :
       iceCandidates["H"]["host"][n] \in rtc[GuestConn].applied
  /\ Quiet("G")

BothOpen == rtc[HostConn].readyState = "open" /\ rtc[GuestConn].readyState = "open"

\* C5: after the Host completed createRoom, the Guest completed connectWithInfo
\* with the Host's getConnectionInfo() output, the answer and the candidates
\* were exchanged and both channels report open, isConnected() with its
\* default peer id 'host' is true on the Host and on the Guest.
C5_BothConnected ==
  Paired /\ Exchanged /\ BothOpen
    => isConnected("H", "host") /\ isConnected("G", "host")

\* C6: once Host and Guest are connected, a message the Host sends with
\* sendMessage is eventually published on the Guest's message event, with the
\* same message.
C6_MessageReachesGuest ==
  \A msg \in Msgs :
    (/\ Paired /\ BothOpen
     /\ \E n \in 1..Len(sent) : sent[n] = [conn |-> HostConn, msg |-> msg])
      ~> (\E n \in 1..Len(emitted["G"]) :
            emitted["G"][n].name = "message" /\ emitted["G"][n].arg = msg)

\* the Host's createRoom has completed for the connection now registered as 'host'
CreateRoomCompleted(m) == Has(m, "host") /\ rtc[Get(m, "host")].completed

\* C10: getConnectionInfo fails with NoActiveRoom when no room is active, with
\* ConnectionInfoUnavailable whenever createRoom has not completed, and
\* returns a payload only once createRoom has completed.
C10_ConnectionInfoOnlyAfterCreateRoom ==
  /\ (getCurrentRoom("H") = Null
        => getConnectionInfo("H").res = Err("NoActiveRoom", ""))
  /\ (getCurrentRoom("H") # Null /\ ~CreateRoomCompleted("H")
        => getConnectionInfo("H").res = Err("ConnectionInfoUnavailable", ""))
  /\ (getConnectionInfo("H").res = Ok => CreateRoomCompleted("H"))

\* the candidates the transport has reported for connection c, in the order
\* of their discovery
Discovered(c) == [n \in 1..rtc[c].ncand |-> CandBase(c) + n]

\* the candidates of connection c in a list, in the order of the list
Of(c, list) == SelectSeq(list, LAMBDA x : x > CandBase(c) /\ x <= CandBase(c) + MaxCands)

\* C11: once createRoom has completed, the payload getConnectionInfo returns
\* holds, in discovery order, every candidate the transport reported for the
\* Host's connection.
C11_PayloadHasEveryCandidate ==
  CreateRoomCompleted("H") /\ getConnectionInfo("H").res = Ok
    => Of(Get("H", "host"), getConnectionInfo("H").info.obj.candidates)
         = Discovered(Get("H", "host"))

\* the places of the events called name, about peer p, in what m published
Places(m, name, p) ==
  {n \in 1..Len(emitted[m]) : emitted[m][n].name = name /\ emitted[m][n].peer = p}

\* C12: leaveRoom with an active room r closes the channel and the connection
\* of every entry present, removes every entry and publishes exactly one
\* peerLeave per entry (and none for any other id); after all of them it
\* publishes exactly one roomLeft, which carries r, and the room id is cleared.
C12_LeaveRoomTeardown ==
  [][ invoked' = "leaveRoom" /\ getCurrentRoom("H") # Null
        => /\ \A c \in RegConns("H") :
                rtc'[c].closed /\ rtc'[c].readyState \in {"closing", "closed"}
           /\ connections'["H"] = <<>>
           /\ \A p \in PeerIds :
                Cardinality(Places("H", "peerLeave", p)') = (IF Has("H", p) THEN 1 ELSE 0)
           /\ Places("H", "roomLeft", "")' = {Len(emitted'["H"])}
           /\ emitted'["H"][Len(emitted'["H"])].arg = getCurrentRoom("H")
           /\ Len(emitted'["H"]) = Len(connections["H"]) + 1
           /\ getCurrentRoom("H")' = Null ]_vars

\* leaveRoom has just ended room r2, which held the 'host' entry with its
\* channel and an offer-path entry without one
C12_Witness ==
  /\ invoked = "leaveRoom"
  /\ Len(emitted["H"]) = 3
  /\ emitted["H"][3] = Ev("roomLeft", "", "r2", 0)
  /\ Places("H", "peerLeave", "host") # {} /\ Places("H", "peerLeave", "p2") # {}
  /\ \E c, d \in Conns : /\ rtc[c].kind = "room" /\ rtc[c].closed
                         /\ rtc[d].kind = "offer" /\ rtc[d].closed


\* C13: every disconnect() publishes exactly one disconnect event, as the last
\* event of the call. With a room active the peerLeave and roomLeft events of
\* the teardown come before it and getCurrentRoom() is null afterwards; with no
\* room active nothing else is published and no state changes.
C13_DisconnectNotifies ==
  [][ invoked' = "disconnect"
        => /\ Places("H", "disconnect", "")' = {Len(emitted'["H"])}
           /\ IF getCurrentRoom("H") # Null
              THEN /\ Places("H", "roomLeft", "")' = {Len(emitted'["H"]) - 1}
                   /\ emitted'["H"][Len(emitted'["H"]) - 1].arg = getCurrentRoom("H")
                   /\ \A p \in PeerIds :
                        /\ Cardinality(Places("H", "peerLeave", p)')
                             = (IF Has("H", p) THEN 1 ELSE 0)
                        /\ \A n \in Places("H", "peerLeave", p)' :
                             n < Len(emitted'["H"]) - 1
                   /\ getCurrentRoom("H")' = Null
              ELSE /\ Len(emitted'["H"]) = 1
                   /\ UNCHANGED <<currentRoomId, isHost, connections, localConnection,
                                  iceCandidates, rtc, calls, wire>> ]_vars

\* disconnect has just torn down a room with two entries and notified
C13_Witness ==
  /\ invoked = "disconnect"
  /\ Len(emitted["H"]) = 4
  /\ emitted["H"][3].name = "roomLeft"
  /\ emitted["H"][4].name = "disconnect"
  /\ getCurrentRoom("H") = Null

\* disconnect has just been called with no room active
C13_WitnessIdle ==
  /\ invoked = "disconnect"
  /\ emitted["H"] = <<Ev("disconnect", "", "", 0)>>


\* the step left room r of m: one peerLeave per entry r held, then roomLeft(r)
\* as event number last, and every connection of r closed
LeftRoom(m, r, last) ==
  /\ \A p \in PeerIds :
       /\ Cardinality(Places(m, "peerLeave", p)') = (IF Has(m, p) THEN 1 ELSE 0)
       /\ \A n \in Places(m, "peerLeave", p)' : n < last
  /\ Places(m, "roomLeft", "")' = {last}
  /\ emitted'[m][last].arg = r
  /\ \A c \in RegConns(m) : rtc'[c].closed /\ c \notin RegConns(m)'

C14_WitnessJoin ==
  /\ invoked = "joinRoom"
  /\ getCurrentRoom("H") = "r2"
  /\ Len(emitted["H"]) = 4
  /\ emitted["H"][3] = Ev("roomLeft", "", "r1", 0)
  /\ emitted["H"][4] = Ev("roomJoined", "", "r2", 0)


\* the situations in which handleConnectionInfo is to act on a description
Accepted(m, type) ==
  /\ getCurrentRoom(m) # Null
  /\ \/ type = "offer" /\ isHost[m]
     \/ type = "answer" /\ ~isHost[m]

\* C15: handleConnectionInfo acts on an offer only while the manager is Host
\* of an active room and on an answer only while it is Guest of an active
\* room; called in any other situation it returns at once, having constructed
\* no connection, called no transport operation, registered no entry and
\* published no event.
C15_RoleAndRoomGate ==
  [][ \A k \in Slots :
        /\ Call("H", k).op = "none"
        /\ Call("H", k)'.op = "handleConnectionInfo"
        /\ ~Accepted("H", Call("H", k)'.type)
        => /\ Call("H", k)'.pc = "done"
           /\ rtc' = rtc
           /\ connections' = connections
           /\ emitted'["H"] = <<>> ]_vars


\* a string that is not a valid encoding, or whose data lacks type, sdp or
\* roomId
Malformed(info) ==
  \/ ~info.b64 \/ ~info.json
  \/ info.obj.type = "" \/ info.obj.sdp = 0 \/ info.obj.roomId = ""

\* the errors thrown for a string that cannot be decoded to a handshake payload
InvalidHandshakePayload ==
  {Err("InvalidCharacter", ""), Err("SyntaxError", ""), Err("InvalidConnectionInfo", "")}

\* C16: connectWithInfo given a malformed string fails with
\* InvalidHandshakePayload; no step of the call changes the room id, the role,
\* the registry or the candidate buffer, constructs a connection or publishes
\* an event.
C16_MalformedInfoRejected ==
  [][ /\ Call("G", 1)' # Call("G", 1)
      /\ Call("G", 1)'.op = "connectWithInfo"
      /\ Malformed(Call("G", 1)'.info)
      => /\ Call("G", 1)'.pc \in {"backoff", "done"}
         /\ Call("G", 1)'.pc = "done" => Call("G", 1)'.res \in InvalidHandshakePayload
         /\ UNCHANGED <<currentRoomId, isHost, connections, iceCandidates,
                        localConnection, rtc>>
         /\ emitted'["G"] = <<>> ]_vars

\* connectWithInfo has failed on a payload without roomId, called by a Guest
\* that is in room r1 with a candidate buffered
C16_Witness ==
  /\ Done("G", 1, "connectWithInfo")
  /\ Call("G", 1).info = Encode(Payload("offer", RemoteSdp, "", <<>>))
  /\ Call("G", 1).res = Err("InvalidConnectionInfo", "")
  /\ getCurrentRoom("G") = "r1"
  /\ iceCandidates["G"]["peer"] # <<>>


\* C17: for every valid handshake payload p, encode(p) returns a string,
\* decode of that string returns p, and encode gives the same string whenever
\* it is applied to p.
C17_RoundTrip ==
  /\ codec.pc \in {"encoded", "decoded"}
       => codec.enc.ok /\ codec.enc = encodeSignalingData(codec.p)
  /\ codec.pc = "decoded" => codec.dec = Returned(codec.p)

\* the round trip restricted to payloads whose text is within Latin-1
C17_RoundTripLatin1 ==
  (\A n \in 1..Len(Stringify(codec.p)) : Stringify(codec.p)[n] <= 255)
    => C17_RoundTrip


\* C18: the step in which createRoom or connectWithInfo rejects after its last
\* attempt publishes the error it rejects with as an error event, and no step
\* that ends an attempt with another still to come, or that ends the call
\* successfully, publishes one.
C18_FinalErrorPublished ==
  [][ \A k \in Slots :
        /\ Call("H", k)'.op \in {"createRoom", "connectWithInfo"}
        /\ Call("H", k)' # Call("H", k)
        => /\ Call("H", k)'.pc = "done" /\ Call("H", k)'.res # Ok
                => Published("H", "error")'
           /\ Call("H", k)'.pc # "done" \/ Call("H", k)'.res = Ok
                => ~Published("H", "error")' ]_vars


\* the errors of a messaging precondition
MessagingFailures == {"NotInRoom", "UnknownPeer", "ChannelNotEstablished", "ChannelNotOpen"}

\* C19: a sendMessage whose send logic fails with NotInRoom, UnknownPeer,
\* ChannelNotEstablished or ChannelNotOpen is rejected with that error by that
\* one attempt: the logic has run once, no backoff delay is pending or has
\* elapsed, and no further attempt (with its channel.send calls) is made.
C19_MessagingFailureNotRetried ==
  \A k \in Slots :
    /\ Call("H", k).op = "sendMessage"
    /\ Call("H", k).errs # <<>>
    /\ Call("H", k).errs[1].kind \in MessagingFailures
    => /\ Call("H", k).pc = "done"
       /\ Call("H", k).res = Call("H", k).errs[1]
       /\ Call("H", k).n = 1
       /\ Call("H", k).waited = 0


\* the channel.send calls of the last step made on the channel of m's peer p
SendsTo(m, p) == {n \in 1..Len(sent) : Get(m, p) # 0 /\ sent[n].conn = Get(m, p)}

\* C20: in every run of the send logic, each peer whose channel.send returned
\* gets exactly one message event, carrying the message sent and the peer's
\* id and published after the send; a peer whose send failed (a precondition
\* error, or channel.send throwing) gets no message event, and nothing else
\* is published.
C20_EchoPerSuccessfulSend ==
  [][ \A k \in Slots :
        Call("H", k)'.op = "sendMessage" /\ Call("H", k)'.n = Call("H", k).n + 1
        => /\ Len(emitted'["H"]) = Len(sent')
           /\ \A n \in 1..Len(sent') :
                /\ emitted'["H"][n].name = "message"
                /\ emitted'["H"][n].arg = sent'[n].msg
                /\ sent'[n].msg = Call("H", k)'.msg
                /\ Get("H", emitted'["H"][n].peer) = sent'[n].conn
           /\ \A p \in PeerIds :
                LET targeted == /\ getCurrentRoom("H") # Null /\ Has("H", p)
                                /\ Call("H", k)'.tgt \in {"", p}
                    succeeds == /\ targeted /\ PreconditionError("H", p) = ""
                                /\ ~rtc[Get("H", p)].sendThrows
                IN /\ Cardinality(SendsTo("H", p)') = (IF succeeds THEN 1 ELSE 0)
                   /\ Cardinality(Places("H", "message", p)')
                        = (IF succeeds THEN 1 ELSE 0) ]_vars

\* a broadcast has just sent to the 'host' entry, publishing its echo, while
\* the send to another peer failed
C20_Witness ==
  /\ Call("H", 1).op = "sendMessage" /\ Call("H", 1).tgt = "" /\ Call("H", 1).n = 1
  /\ Call("H", 1).errs # <<>>
  /\ Len(sent) = 1
  /\ emitted["H"] = <<Ev("message", "host", "m1", 0)>>

\* a send has just failed because channel.send threw
C20_WitnessThrow ==
  /\ Call("H", 1).op = "sendMessage" /\ Call("H", 1).n = 1
  /\ Call("H", 1).errs = <<Err("SendFailed", "host")>>
  /\ emitted["H"] = <<>>


C21_WitnessConnected ==
  /\ facade.pc = "done" /\ facade.res = Ok
  /\ facade.emitted = <<Ev("connect", "", "", 0)>>
  /\ getCurrentRoom("H") = facade.roomId


\* C22: a createRoom called while another createRoom or connectWithInfo of
\* the same manager is suspended at one of its waits does not succeed.
C22_OverlappingCreateRoomFails ==
  Done("H", 2, "createRoom") => Call("H", 2).res # Ok


\* C23: a step of connectWithInfo publishes connectionInfo only when every
\* candidate embedded in the payload has been applied to the Guest's
\* connection, and the answer precedes roomJoined.
C23_AnswerAfterCandidates ==
  Call("G", 1).op = "connectWithInfo" /\ Published("G", "connectionInfo")
    => /\ \A n \in 1..Len(Call("G", 1).info.obj.candidates) :
            Call("G", 1).info.obj.candidates[n] \in rtc[localConnection["G"]].applied
       /\ \A i \in Places("G", "roomJoined", "") :
            \E j \in Places("G", "connectionInfo", "") : j < i


\* m published connectionStateChange for peer p with state s in the last step
StateChangePublished(m, p, s) ==
  \E n \in Places(m, "connectionStateChange", p) : emitted[m][n].arg = s

\* C24: when the channel of a registered entry that has one (the 'host' entry
\* of createRoom or an entry of createPeerConnection) reports open, the entry's
\* state becomes connected and peerJoin(peerId) and
\* connectionStateChange(peerId, connected) are published.
C24_ChannelOpenMarksConnected ==
  [][ \A c \in RegConns("H") :
        rtc[c].dataChannel /\ rtc[c].readyState # "open" /\ rtc'[c].readyState = "open"
        => /\ rtc'[c].state = "connected"
           /\ PublishedFor("H", "peerJoin", rtc[c].pid)'
           /\ StateChangePublished("H", rtc[c].pid, "connected")' ]_vars

\* C25: when the channel of a registered entry reports closed, the entry's
\* state becomes disconnected, connectionStateChange(peerId, disconnected) is
\* published and the entry stays registered.
C25_ChannelCloseMarksDisconnected ==
  [][ \A c \in RegConns("H") :
        rtc[c].dataChannel /\ rtc[c].readyState # "closed" /\ rtc'[c].readyState = "closed"
        => /\ rtc'[c].state = "disconnected"
           /\ StateChangePublished("H", rtc[c].pid, "disconnected")'
           /\ c \in RegConns("H")' ]_vars


\* one of the signals of c has arrived: connectivity established, or channel opened
Established(c) ==
  rtc[c].connectionState = "connected" \/ rtc[c].iceState \in {"connected", "completed"}
Opened(c) == rtc[c].readyState \in {"open", "closed"} /\ ~rtc[c].closed

\* C26: for an entry made by createPeerConnection, connectivity established
\* and channel opened may arrive in either order: the step in which the first
\* of them arrives publishes connectionStateChange(connected), and from then
\* on, whatever arrives, the entry is connected.
C26_EitherOrderConnected ==
  [][ \A c \in RegConns("H") :
        rtc[c].kind = "peer"
        => /\ (~Established(c) /\ ~Opened(c) /\ (Established(c)' \/ Opened(c)')
                 => StateChangePublished("H", rtc[c].pid, "connected")')
           /\ (c \in RegConns("H")' /\ (Established(c)' \/ rtc'[c].readyState = "open")
                 => rtc'[c].state = "connected") ]_vars

\* the channel of p1 opened before connectivity was established
C26_Witness ==
  \E c \in RegConns("H") :
    /\ rtc[c].kind = "peer" /\ rtc[c].readyState = "open" /\ ~Established(c)
    /\ rtc[c].state = "connected"
    /\ StateChangePublished("H", "p1", "connected")

\* both signals have arrived for p1
C26_WitnessBoth ==
  \E c \in RegConns("H") :
    /\ rtc[c].kind = "peer" /\ rtc[c].readyState = "open" /\ Established(c)
    /\ rtc[c].state = "connected"

\* connectivity was established for p1 before its channel opened
C26_WitnessConnectivityFirst ==
  \E c \in RegConns("H") :
    /\ rtc[c].kind = "peer" /\ rtc[c].readyState = "connecting"
    /\ rtc[c].iceState = "connected" /\ rtc[c].state = "connected"
    /\ StateChangePublished("H", "p1", "connected")


\* C27: when the transport reports an error on the channel of a registered
\* entry, the step publishes an error event that carries a description, the
\* entry stays in the registry and the room is unchanged.
C27_ChannelErrorPublished ==
  [][ \A c \in RegConns("H") :
        rtc[c].dataChannel /\ ~rtc[c].errored /\ rtc'[c].errored
        => /\ \E i \in DOMAIN emitted'["H"] :
                emitted'["H"][i].name = "error" /\ emitted'["H"][i].data # ""
           /\ connections' = connections
           /\ currentRoomId' = currentRoomId ]_vars


\* a callback of connection c is delivered in this step although c was
\* closed and its entry removed from the registry
LateCallback(c) ==
  /\ rtc[c].kind # "free" /\ rtc[c].closed /\ c \notin RegConns("H")
  /\ \/ rtc'[c].ncand # rtc[c].ncand
     \/ rtc'[c].readyState # rtc[c].readyState
     \/ rtc'[c].connectionState # rtc[c].connectionState
     \/ rtc'[c].iceState # rtc[c].iceState

\* C28: a transport callback that arrives after its entry was removed by
\* leaveRoom or disconnect changes neither the registry nor the candidate
\* buffer.
C28_LateCallbackChangesNothing ==
  [][ \A c \in Conns :
        LateCallback(c)
        => connections' = connections /\ iceCandidates' = iceCandidates ]_vars

\* the same for the close event of the channel alone, which every transport
\* delivers after close()
C28_LateChannelCloseChangesNothing ==
  [][ \A c \in Conns :
        LateCallback(c) /\ rtc'[c].ncand = rtc[c].ncand
        => connections' = connections /\ iceCandidates' = iceCandidates ]_vars


\* C29: createRoom neither publishes roomJoined nor returns before the
\* transport has reported gathering complete for the connection of the host
\* entry; and when the check after setLocalDescription finds gathering
\* already complete, that same step completes the call and publishes
\* roomJoined.
C29_RoomJoinedAfterGathering ==
  [][ /\ Published("H", "roomJoined")'
        => /\ Done("H", 1, "createRoom")' /\ Call("H", 1)'.res = Ok
           /\ Call("H", 1)'.c = Get("H", "host")'
           /\ rtc'[Call("H", 1)'.c].iceGatheringState = "complete"
      /\ Done("H", 1, "createRoom")' /\ Call("H", 1)'.res = Ok
        => rtc'[Call("H", 1)'.c].iceGatheringState = "complete"
      /\ ( /\ Call("H", 1).op = "createRoom" /\ Call("H", 1).pc = "setLocalOk"
           /\ rtc[Call("H", 1).c].iceGatheringState = "complete"
           /\ Call("H", 1)' # Call("H", 1) )
        => /\ Done("H", 1, "createRoom")' /\ Call("H", 1)'.res = Ok
           /\ Published("H", "roomJoined")' ]_vars

\* createRoom waited, and completed in the step that reported gathering complete
C29_Witness ==
  /\ Done("H", 1, "createRoom") /\ Call("H", 1).res = Ok
  /\ Published("H", "roomJoined")
  /\ rtc[Call("H", 1).c].iceGatheringState = "complete"
  /\ rtc[Call("H", 1).c].ncand = MaxCands

\* gathering is complete before createRoom checks it
C29_WitnessAlreadyComplete ==
  /\ Call("H", 1).op = "createRoom" /\ Call("H", 1).pc = "setLocalOk"
  /\ rtc[Call("H", 1).c].iceGatheringState = "complete"

\* createRoom is suspended while the transport is still gathering
C29_WitnessWaiting ==
  /\ Call("H", 1).op = "createRoom" /\ Call("H", 1).pc = "gather"
  /\ rtc[Call("H", 1).c].iceGatheringState = "gathering"


\* C30: when the offer and the local description succeed and the transport
\* goes on to report gathering complete, before or after createRoom starts to
\* wait for it, every createRoom that was called completes and publishes
\* roomJoined.
C30_CreateRoomCompletes ==
  (Call("H", 1).op = "createRoom" /\ Call("H", 1).pc # "done")
    ~> ( /\ Done("H", 1, "createRoom") /\ Call("H", 1).res = Ok
         /\ Published("H", "roomJoined") )

\* createRoom completed for a connection whose gathering ended without a candidate
C30_Witness ==
  /\ Done("H", 1, "createRoom") /\ Call("H", 1).res = Ok
  /\ Published("H", "roomJoined")
  /\ rtc[Call("H", 1).c].completed /\ rtc[Call("H", 1).c].ncand = 0


\* C31: the step of leaveRoom or disconnect that tears a room down leaves the
\* candidate buffer empty for every peer id, and the payload
\* getConnectionInfo produces holds only candidates discovered for the
\* connection of the room that is active.
C31_TeardownClearsCandidates ==
  [][ /\ (currentRoomId["H"] # Null /\ currentRoomId'["H"] = Null
            => \A p \in DOMAIN iceCandidates'["H"] : iceCandidates'["H"][p] = <<>>)
      /\ (getConnectionInfo("H").res = Ok
            => Of(Get("H", "host"), getConnectionInfo("H").info.obj.candidates)
                 = getConnectionInfo("H").info.obj.candidates)' ]_vars


\* C32: the retry executor waits 1 unit between the first and the second
\* attempt and 2 units between the second and the third, nothing before the
\* first attempt and nothing after the last failure: a call that fails in
\* every attempt is reported after 3 units of backoff, one that succeeds at
\* its first attempt after none.
C32_BackoffSchedule ==
  LET call == Call("H", 1)
  IN call.op = "createRoom"
     => /\ call.n \in 1..maxRetries
        /\ call.n = 1 => call.waited = 0
        /\ call.n = 2 => call.waited = 1
        /\ call.n = 3 => call.waited = 1 + 2
        /\ call.pc = "backoff" => call.n < maxRetries
        /\ call.pc = "done" /\ call.res # Ok
             => call.n = maxRetries /\ Len(call.errs) = maxRetries /\ call.waited = 3

\* createRoom failed in all three attempts
C32_Witness ==
  /\ Done("H", 1, "createRoom") /\ Call("H", 1).res # Ok
  /\ Call("H", 1).n = 3 /\ Call("H", 1).waited = 3

\* createRoom succeeded at its first attempt
C32_WitnessFirstAttempt ==
  /\ Done("H", 1, "createRoom") /\ Call("H", 1).res = Ok
  /\ Call("H", 1).n = 1 /\ Call("H", 1).waited = 0

\* createRoom succeeded at its third attempt, after 3 units
C32_WitnessThirdAttempt ==
  /\ Done("H", 1, "createRoom") /\ Call("H", 1).res = Ok
  /\ Call("H", 1).n = 3 /\ Call("H", 1).waited = 3


\* C33: no entry outlives the room it was created in: whenever
\* getCurrentRoom() is null, getPeerIds() is empty.
C33_NoEntryWithoutRoom ==
  getCurrentRoom("H") = Null => Len(connections["H"]) = 0


\* roomJoined(r) was published by createRoom and no roomLeft has matched it
JoinedUnmatched(m, r) == currentRoomId[m] = r /\ CreateRoomCompleted(m)

\* C34: roomLeft(r) is published only for a room whose roomJoined(r) was
\* published before and not yet matched by a roomLeft; a createRoom that
\* succeeds after retries publishes no roomLeft on the way.
C34_RoomEventsPaired ==
  [][ \A n \in 1..Len(emitted'["H"]) :
        emitted'["H"][n].name = "roomLeft"
        => JoinedUnmatched("H", emitted'["H"][n].arg) ]_vars


\* C35: whenever roomJoined(r) is published, getCurrentRoom() is r, and when
\* createRoom published it the 'host' entry is registered - also when
\* leaveRoom, disconnect or joinRoom was invoked while createRoom was
\* suspended.
C35_RoomJoinedInItsRoom ==
  \A n \in 1..Len(emitted["H"]) :
    emitted["H"][n].name = "roomJoined"
    => /\ getCurrentRoom("H") = emitted["H"][n].arg
       /\ invoked # "joinRoom" => Has("H", "host")


\* the transport handles manager m has opened and not closed
OpenHandles(m) == {c \in Conns : rtc[c].kind # "free" /\ rtc[c].mgr = m /\ ~rtc[c].closed}

\* C36: every transport connection a manager has opened belongs to an entry
\* of its registry once the call that opened it has returned, and is closed
\* when leaveRoom or disconnect returns: no open handle is out of the
\* registry's reach.
C36_NoHandleLeftOpen ==
  \A m \in Mgrs :
    /\ Quiet(m) => OpenHandles(m) \subseteq RegConns(m)
    /\ invoked \in {"leaveRoom", "disconnect"} /\ Quiet(m) => OpenHandles(m) = {}


\* a callback of connection c is delivered in this step while c is not the
\* handle of a registered entry
StaleCallback(c) ==
  /\ rtc[c].kind # "free" /\ c \notin RegConns("H")
  /\ \/ rtc'[c].readyState # rtc[c].readyState
     \/ rtc'[c].connectionState # rtc[c].connectionState
     \/ rtc'[c].iceState # rtc[c].iceState

\* C37: a callback from a handle that is no longer the handle of the entry
\* registered under its peer id changes neither the state nor the
\* iceConnectionState of the entry that is.
C37_StaleCallbackKeepsNewEntry ==
  [][ \A c \in Conns, e \in RegConns("H") :
        StaleCallback(c) /\ e # c
        => /\ rtc'[e].state = rtc[e].state
           /\ rtc'[e].iceConnectionState = rtc[e].iceConnectionState ]_vars


\* C38: whenever isConnected(p) is true while a room is active, a targeted
\* send to p in that state meets none of the precondition errors
\* UnknownPeer, ChannelNotEstablished, ChannelNotOpen.
C38_ConnectedMeansSendable ==
  \A p \in {"host", "p1", "p2"} :
    getCurrentRoom("H") # Null /\ isConnected("H", p)
    => sendMessageToPeer("H", "m1", p).res
         \notin {Err("UnknownPeer", p), Err("ChannelNotEstablished", p),
                 Err("ChannelNotOpen", p)}


\* C39: when connectionStateChange is published for a registered peer id,
\* the state it carries is the state stored in that peer's entry: the
\* manager announces neither connected nor disconnected for a peer whose
\* entry records another state.
C39_AnnouncedStateIsStored ==
  \A n \in 1..Len(emitted["H"]) :
    LET ev == emitted["H"][n]
    IN ev.name = "connectionStateChange" /\ Has("H", ev.peer)
       => rtc[Get("H", ev.peer)].state = ev.arg


\* C40: for each peer id peerJoin and peerLeave alternate, peerJoin first: a
\* step publishes peerLeave(p) only for a p the subscriber's list holds, and
\* peerJoin(p) only for a p it does not hold, so the list of a subscriber that
\* adds on peerJoin and removes on peerLeave has no duplicates.
C40_JoinLeaveAlternate ==
  [][ /\ \A n \in 1..Len(emitted'["H"]) :
           LET ev == emitted'["H"][n]
               before == Subscribed(peersData["H"], SubSeq(emitted'["H"], 1, n - 1))
               held == \E i \in 1..Len(before) : before[i] = ev.peer
           IN /\ ev.name = "peerLeave" => held
              /\ ev.name = "peerJoin" => ~held
      /\ \A i, j \in 1..Len(peersData'["H"]) : peersData'["H"][i] = peersData'["H"][j] => i = j ]_vars

====
